---- MODULE Spec2Model ----
(***************************************************************************)
(* Model of the QR batch generation engine of andersekbom/qr-generator:    *)
(* filename synthesis, the create_qr_codes loop with its entry points, and *)
(* the SVG colorizer (src/src/qr_core.py, src/src/mode_handlers.py,        *)
(* src/src/validation.py, src/qr_generator.py).                            *)
(*                                                                         *)
(* Text is modelled as a sequence of one-character strings, so that        *)
(* formatting, filtering and stripping are computed character by           *)
(* character as the Python code computes them.                             *)
(***************************************************************************)
EXTENDS Integers, Sequences, FiniteSets, TLC

VARIABLES
    call,       \* pure-function harness: the call being made (op + arguments)
    ret,        \* pure-function harness: its return value, <<>> while pending
    log,        \* stateful harness: the calls made so far, in order
    disk,       \* stateful harness: the file system, path -> node
    pc,         \* create_qr_codes / entry point: position in the code
    entry,      \* which entry point drives the run
    ui,         \* raw user input of the entry point
    args,       \* arguments create_qr_codes was invoked with
    i,          \* loop variable of create_qr_codes
    cur,        \* the item in flight: payload, image, filename
    encoded,    \* payloads handed to qr.add_data, in order
    dirMade,    \* os.makedirs(output_folder) has run
    level,      \* create_qr_codes: error_correction_level, <<>> before it is resolved
    cqTrace,    \* create_qr_codes: the calls it has made, in order
    files,      \* output folder: filename -> content
    writes,     \* filenames written by img.save, in order
    reported,   \* what the entry point reported to the user
    czPc,       \* colorize_svg: position in the code
    czIn,       \* colorize_svg: arguments (color, background_color, svg_precision)
    czFile,     \* colorize_svg: content of svg_file on disk
    czOrig,     \* colorize_svg: content of svg_file when the call started
    czMem,      \* colorize_svg: svg_content / root / string held in memory
    czTrace,    \* colorize_svg: the code blocks entered, in order
    faults      \* file operations the environment may still make fail

harnessVars == <<call, ret, log, disk>>
batchVars == <<pc, entry, ui, args, i, cur, encoded, dirMade, level, cqTrace, files, writes,
               reported>>
czVars == <<czPc, czIn, czFile, czOrig, czMem, czTrace, faults>>
vars == <<call, ret, log, disk, pc, entry, ui, args, i, cur, encoded, dirMade, level, cqTrace,
          files, writes,
          reported, czPc, czIn, czFile, czOrig, czMem, czTrace, faults>>

(***************************************************************************)
(* Bounds                                                                  *)
(***************************************************************************)
MaxLen == 2        \* longest payload drawn for the filename harness
MaxIndex == 12     \* largest index drawn for the filename harness
MaxElems == 2      \* most elements below the root of an SVG artifact
MaxFaults == 2     \* failing file operations during one run
MaxCount == 10     \* largest count of a Sequential run
MaxRows == 3       \* most rows of a table
MaxSvgItems == 2   \* most records of a run in the vector format

(***************************************************************************)
(* Characters and text helpers                                             *)
(***************************************************************************)
DigitChars == <<"0", "1", "2", "3", "4", "5", "6", "7", "8", "9">>
Digit == {DigitChars[k] : k \in 1..10}
LowerChars == <<"a", "b", "c", "d", "e", "f", "g", "h", "i", "j", "k", "l", "m", "n", "o", "p", "q", "r", "s", "t", "u", "v", "w", "x", "y", "z">>
UpperChars == <<"A", "B", "C", "D", "E", "F", "G", "H", "I", "J", "K", "L", "M", "N", "O", "P", "Q", "R", "S", "T", "U", "V", "W", "X", "Y", "Z">>
Letter == {LowerChars[k] : k \in 1..26} \cup {UpperChars[k] : k \in 1..26}

\* str.isalnum() on one character
IsAlnum(c) == c \in Digit \cup Letter

\* str(n) / f"{n}" for an integer n >= 0
RECURSIVE ToDigits(_)
ToDigits(n) ==
    IF n < 10 THEN <<DigitChars[n + 1]>>
    ELSE Append(ToDigits(n \div 10), DigitChars[(n % 10) + 1])

\* mutant of RStripDot: removes one trailing period only
RStripDotOnce(s) ==
    IF s # <<>> /\ s[Len(s)] = "." THEN SubSeq(s, 1, Len(s) - 1) ELSE s

\* s.rstrip('.')
RECURSIVE RStripDot(_)
RStripDot(s) ==
    IF s = <<>> THEN <<>>
    ELSE IF s[Len(s)] = "." THEN RStripDot(SubSeq(s, 1, Len(s) - 1))
    ELSE s

\* "".join(c for c in s if keep(c)) with the filter of generate_custom_filename
RECURSIVE SafeChars(_)
SafeChars(s) ==
    IF s = <<>> THEN <<>>
    ELSE LET c == Head(s) IN
         IF IsAlnum(c) \/ c \in {" ", "-", "_", "."}
         THEN <<c>> \o SafeChars(Tail(s))
         ELSE SafeChars(Tail(s))

\* "_".join(parts)
RECURSIVE JoinUnderscore(_)
JoinUnderscore(parts) ==
    IF parts = <<>> THEN <<>>
    ELSE IF Len(parts) = 1 THEN parts[1]
    ELSE parts[1] \o <<"_">> \o JoinUnderscore(Tail(parts))

QrCode == <<"q", "r", "_", "c", "o", "d", "e">>

\* f"qr_code_{index}" if index is not None else "qr_code"; index is <<>> for
\* None and <<n>> for the integer n
IndexName(index) ==
    IF index # <<>> THEN QrCode \o <<"_">> \o ToDigits(index[1]) ELSE QrCode

(***************************************************************************)
(* generate_custom_filename                                                *)
(***************************************************************************)
GenerateCustomFilename(base_name, prefix, suffix, use_payload_as_base, index) ==
    LET stripped == RStripDot(SafeChars(base_name))
        safe_base == IF use_payload_as_base
                     THEN (IF stripped = <<>> THEN IndexName(index) ELSE stripped)
                     ELSE IndexName(index)
        parts == (IF prefix # <<>> THEN <<prefix>> ELSE <<>>)
                 \o <<safe_base>>
                 \o (IF suffix # <<>> THEN <<suffix>> ELSE <<>>)
    IN JoinUnderscore(parts)

(***************************************************************************)
(* Validators (src/src/validation.py)                                      *)
(*                                                                         *)
(* A validator returns [ok, val, why]: (True, val) or (False, why). val is *)
(* <<>> on failure; an optional argument is <<>> for None, <<x>> for x.     *)
(***************************************************************************)
Whitespace == {" ", "\n", "\t"}

\* s.strip()
RECURSIVE LStrip(_)
LStrip(s) == IF s # <<>> /\ Head(s) \in Whitespace THEN LStrip(Tail(s)) ELSE s

RECURSIVE RStrip(_)
RStrip(s) ==
    IF s # <<>> /\ s[Len(s)] \in Whitespace THEN RStrip(SubSeq(s, 1, Len(s) - 1)) ELSE s

Strip(s) == RStrip(LStrip(s))

\* the value of one digit character in bases 10 and 16
DigitValue(c) ==
    IF c \in Digit THEN (CHOOSE k \in 1..10 : DigitChars[k] = c) - 1
    ELSE IF \E k \in 1..6 : LowerChars[k] = c
    THEN 9 + (CHOOSE k \in 1..6 : LowerChars[k] = c)
    ELSE 9 + (CHOOSE k \in 1..6 : UpperChars[k] = c)

DigitsOfBase(base) ==
    IF base = 10 THEN Digit
    ELSE Digit \cup {LowerChars[k] : k \in 1..6} \cup {UpperChars[k] : k \in 1..6}

RECURSIVE DigitsValue(_, _, _)
DigitsValue(body, base, acc) ==
    IF body = <<>> THEN acc
    ELSE IF Head(body) = "_" THEN DigitsValue(Tail(body), base, acc)
    ELSE DigitsValue(Tail(body), base, acc * base + DigitValue(Head(body)))

\* int(text, base): <<n>>, or <<>> for ValueError. Surrounding whitespace,
\* a sign, single underscores between digits and (base 16) a 0x prefix are
\* accepted, as Python accepts them.
PyInt(text, base) ==
    LET t == Strip(text)
        signed == t # <<>> /\ t[1] \in {"+", "-"}
        u == IF signed THEN Tail(t) ELSE t
        prefixed == base = 16 /\ Len(u) >= 2 /\ u[1] = "0" /\ u[2] \in {"x", "X"}
        body == IF prefixed THEN SubSeq(u, 3, Len(u)) ELSE u
        wellFormed ==
            /\ body # <<>>
            /\ \A k \in 1..Len(body) : body[k] \in DigitsOfBase(base) \cup {"_"}
            /\ body[Len(body)] # "_"
            /\ body[1] = "_" => prefixed
            /\ \A k \in 1..(Len(body) - 1) : ~(body[k] = "_" /\ body[k + 1] = "_")
        magnitude == DigitsValue(body, base, 0)
    IN IF ~wellFormed THEN <<>>
       ELSE IF signed /\ t[1] = "-" THEN <<0 - magnitude>>
       ELSE <<magnitude>>

Valid(v) == [ok |-> TRUE, val |-> v, why |-> ""]
Invalid(reason) == [ok |-> FALSE, val |-> <<>>, why |-> reason]

\* validate_integer_input on an int: range check; max_value is <<>> for None
ValidateIntegerValue(n, min_value, max_value) ==
    IF n < min_value THEN Invalid("must be at least min_value")
    ELSE IF max_value # <<>> /\ n > max_value[1] THEN Invalid("must be at most max_value")
    ELSE Valid(n)

\* validate_integer_input on a text
ValidateIntegerInput(value, min_value, max_value) ==
    IF PyInt(value, 10) = <<>> THEN Invalid("must be a valid number")
    ELSE ValidateIntegerValue(PyInt(value, 10)[1], min_value, max_value)

\* re.match(r'^\d{2}\.\d{2}\.\d{2}$', date_str): $ also matches before a
\* final newline
MatchesDatePattern(s) ==
    /\ Len(s) = 8 \/ (Len(s) = 9 /\ s[9] = "\n")
    /\ \A k \in {1, 2, 4, 5, 7, 8} : s[k] \in Digit
    /\ s[3] = "." /\ s[6] = "."

IsLeapYear(y) == y % 4 = 0 /\ (y % 100 # 0 \/ y % 400 = 0)

DaysInMonth(m, y) ==
    IF m = 2 THEN (IF IsLeapYear(y) THEN 29 ELSE 28)
    ELSE IF m \in {4, 6, 9, 11} THEN 30 ELSE 31

\* datetime(year, month, day) does not raise ValueError
IsCalendarDate(y, m, d) == m \in 1..12 /\ d >= 1 /\ d <= DaysInMonth(m, y)

ValidateDateFormat(date_str) ==
    IF date_str = <<>> THEN Invalid("Date cannot be empty")
    ELSE IF ~MatchesDatePattern(date_str)
    THEN Invalid("Date must be in DD.MM.YY format (e.g., 26.12.31)")
    ELSE LET day == PyInt(SubSeq(date_str, 1, 2), 10)[1]
             month == PyInt(SubSeq(date_str, 4, 5), 10)[1]
             year == PyInt(SubSeq(date_str, 7, Len(date_str)), 10)[1]
         IN IF IsCalendarDate(2000 + year, month, day) THEN Valid(date_str)
            ELSE Invalid("Invalid date. Please check day, month values.")

CssColors ==
    {<<"b", "l", "a", "c", "k">>,
     <<"w", "h", "i", "t", "e">>,
     <<"r", "e", "d">>,
     <<"g", "r", "e", "e", "n">>,
     <<"b", "l", "u", "e">>,
     <<"y", "e", "l", "l", "o", "w">>,
     <<"c", "y", "a", "n">>,
     <<"m", "a", "g", "e", "n", "t", "a">>,
     <<"s", "i", "l", "v", "e", "r">>,
     <<"g", "r", "a", "y">>,
     <<"m", "a", "r", "o", "o", "n">>,
     <<"o", "l", "i", "v", "e">>,
     <<"l", "i", "m", "e">>,
     <<"a", "q", "u", "a">>,
     <<"t", "e", "a", "l">>,
     <<"n", "a", "v", "y">>,
     <<"f", "u", "c", "h", "s", "i", "a">>,
     <<"p", "u", "r", "p", "l", "e">>,
     <<"o", "r", "a", "n", "g", "e">>,
     <<"b", "r", "o", "w", "n">>,
     <<"p", "i", "n", "k">>,
     <<"g", "o", "l", "d">>}

\* str.lower()
LowerChar(c) ==
    IF \E k \in 1..26 : UpperChars[k] = c
    THEN LowerChars[CHOOSE k \in 1..26 : UpperChars[k] = c]
    ELSE c

Lower(s) == [k \in 1..Len(s) |-> LowerChar(s[k])]

ValidateColorFormat(color_str) ==
    IF color_str = <<>> THEN Invalid("Color cannot be empty")
    ELSE IF color_str[1] = "#"
    THEN (IF Len(color_str) \notin {4, 7}
          THEN Invalid("Hex color must be #RGB or #RRGGBB format")
          ELSE IF PyInt(Tail(color_str), 16) # <<>> THEN Valid(color_str)
          ELSE Invalid("Invalid hex color format"))
    ELSE IF Lower(color_str) \in CssColors THEN Valid(color_str)
    ELSE Invalid("Color must be hex format (#RGB or #RRGGBB) or CSS color name")

ValidateFormat(format_str) ==
    IF format_str = <<>> THEN Invalid("Format cannot be empty")
    ELSE IF Lower(format_str) \notin {<<"p", "n", "g">>, <<"s", "v", "g">>}
    THEN Invalid("Format must be one of: png, svg")
    ELSE Valid(Lower(format_str))

\* str.upper()
UpperChar(c) ==
    IF \E k \in 1..26 : LowerChars[k] = c
    THEN UpperChars[CHOOSE k \in 1..26 : LowerChars[k] = c]
    ELSE c

Upper(s) == [k \in 1..Len(s) |-> UpperChar(s[k])]

\* validate_qr_version on a text that is not empty; (True, None) has val <<>>
ValidateQrVersion(version_str) ==
    IF Lower(version_str) = <<"a", "u", "t", "o">> THEN Valid(<<>>)
    ELSE IF PyInt(version_str, 10) = <<>>
    THEN Invalid("QR version must be a number between 1-40 or 'auto'")
    ELSE IF PyInt(version_str, 10)[1] >= 1 /\ PyInt(version_str, 10)[1] <= 40
    THEN Valid(PyInt(version_str, 10)[1])
    ELSE Invalid("QR version must be between 1 and 40, or 'auto'")

\* validate_error_correction on a text that is not empty
ValidateErrorCorrection(level_str) ==
    IF Upper(level_str) \notin {<<"L">>, <<"M">>, <<"Q">>, <<"H">>}
    THEN Invalid("Error correction must be one of: L, M, Q, H")
    ELSE Valid(Upper(level_str))

\* the range check of validate_png_quality and validate_svg_precision on
\* int(x), <<>> when int raised ValueError
ValidateSetting(parsed, max_value) ==
    IF parsed = <<>> THEN Invalid("must be a valid number")
    ELSE IF parsed[1] < 0 \/ parsed[1] > max_value
    THEN Invalid("must be between 0 and max_value")
    ELSE Valid(parsed[1])

\* An argument as Python sees it: a str or an int
StrArg(s) == [t |-> "str", v |-> s]
IntArg(n) == [t |-> "int", v |-> n]

\* `not x`
Falsy(x) == IF x.t = "str" THEN x.v = <<>> ELSE x.v = 0

\* int(x) for a str or an int
IntOf(x) == IF x.t = "str" THEN PyInt(x.v, 10) ELSE <<x.v>>

\* how a call ends: with a returned pair or with an exception
Returns(r) == [raised |-> FALSE, result |-> r]
Raises(exception) == [raised |-> TRUE, result |-> exception]

\* validate_integer_input(value, field_name, min_value, max_value)
CallValidateIntegerInput(x, min_value, max_value) ==
    IF IntOf(x) = <<>> THEN Returns(Invalid("must be a valid number"))
    ELSE Returns(ValidateIntegerValue(IntOf(x)[1], min_value, max_value))

\* validate_date_format(date_str): re.match on an int raises TypeError
CallValidateDateFormat(x) ==
    IF Falsy(x) THEN Returns(Invalid("Date cannot be empty"))
    ELSE IF x.t = "int" THEN Raises("TypeError")
    ELSE Returns(ValidateDateFormat(x.v))

\* validate_color_format(color_str): an int has no startswith
CallValidateColorFormat(x) ==
    IF Falsy(x) THEN Returns(Invalid("Color cannot be empty"))
    ELSE IF x.t = "int" THEN Raises("AttributeError")
    ELSE Returns(ValidateColorFormat(x.v))

\* validate_format(format_str): an int has no lower
CallValidateFormat(x) ==
    IF Falsy(x) THEN Returns(Invalid("Format cannot be empty"))
    ELSE IF x.t = "int" THEN Raises("AttributeError")
    ELSE Returns(ValidateFormat(x.v))

\* validate_qr_version(version_str)
CallValidateQrVersion(x) ==
    IF Falsy(x) THEN Returns(Valid(<<>>))
    ELSE IF x.t = "int" THEN Raises("AttributeError")
    ELSE Returns(ValidateQrVersion(x.v))

\* validate_error_correction(level_str)
CallValidateErrorCorrection(x) ==
    IF Falsy(x) THEN Returns(Invalid("Error correction level cannot be empty"))
    ELSE IF x.t = "int" THEN Raises("AttributeError")
    ELSE Returns(ValidateErrorCorrection(x.v))

\* validate_png_quality(quality_str)
CallValidatePngQuality(x) ==
    IF Falsy(x) THEN Returns(Invalid("PNG quality cannot be empty"))
    ELSE Returns(ValidateSetting(IntOf(x), 100))

\* validate_svg_precision(precision_str)
CallValidateSvgPrecision(x) ==
    IF Falsy(x) THEN Returns(Invalid("SVG precision cannot be empty"))
    ELSE Returns(ValidateSetting(IntOf(x), 10))

(***************************************************************************)
(* colorize_svg                                                            *)
(*                                                                         *)
(* An artifact is [wf, decl, frac, elems]: wf says whether the text parses *)
(* as XML, decl whether it starts with "<?xml", frac is the number of      *)
(* fractional digits of its decimal literals (0: it has none), and elems   *)
(* are its elements in document order, elems[1] being the root when wf.    *)
(* An element is [tag, ns, fill]: ns says whether the tag is in the SVG    *)
(* namespace, fill is <<>> without a fill attribute and <<v>> for          *)
(* fill="v" (v a text). Fill values are colour tokens, which hold no       *)
(* decimal literal.                                                        *)
(***************************************************************************)
\* the content of a file that open(svg_file, 'w') truncated and never filled
EmptyFile == [wf |-> FALSE, decl |-> FALSE, frac |-> 0, elems |-> <<>>]

\* mutant of RegexSub: only the first occurrence is replaced (count=1)
RegexSubFirstOnly(content, color) ==
    LET hits == {k \in DOMAIN content.elems :
                    content.elems[k].fill # <<>> /\ content.elems[k].fill[1] # <<>>}
    IN [content EXCEPT !.elems =
        [k \in DOMAIN content.elems |->
            IF k \in hits /\ \A m \in hits : k <= m
            THEN [content.elems[k] EXCEPT !.fill = <<color>>]
            ELSE content.elems[k]]]

\* re.sub(r'fill="[^"]+"', f'fill="{color}"', svg_content): every fill
\* attribute with a non-empty value gets the colour
RegexSub(content, color) ==
    [content EXCEPT !.elems =
        [k \in DOMAIN content.elems |->
            IF content.elems[k].fill # <<>> /\ content.elems[k].fill[1] # <<>>
            THEN [content.elems[k] EXCEPT !.fill = <<color>>]
            ELSE content.elems[k]]]

\* root.findall(f".//{namespace}<tag>") or, when that is empty,
\* root.findall(".//<tag>"): positions of the matched descendants of the root
FindAll(elems, tag) ==
    LET namespaced == {k \in 2..Len(elems) : elems[k].tag = tag /\ elems[k].ns}
        bare == {k \in 2..Len(elems) : elems[k].tag = tag /\ ~elems[k].ns}
    IN IF namespaced # {} THEN namespaced ELSE bare

\* mutant of RectFill: every matched rect gets the foreground colour
RectFillAllForeground(k, rect_elements, color, background_color) == color

\* the fill the rect loop gives the matched rect at position k
RectFill(k, rect_elements, color, background_color) ==
    IF \A m \in rect_elements : k <= m THEN background_color ELSE color

\* the tree after the path loop and the rect loop
EditTree(elems, color, background_color) ==
    LET path_elements == FindAll(elems, "path")
        rect_elements == FindAll(elems, "rect")
    IN [k \in DOMAIN elems |->
           IF k \in rect_elements
           THEN [elems[k] EXCEPT !.fill =
                    <<RectFill(k, rect_elements, color, background_color)>>]
           ELSE IF k \in path_elements
           THEN [elems[k] EXCEPT !.fill = <<color>>]
           ELSE elems[k]]

\* modified: some path or rect element was found
Modified(elems) == FindAll(elems, "path") # {} \/ FindAll(elems, "rect") # {}

\* ET.tostring(root, encoding='unicode'), the precision rewrite of every
\* decimal literal when svg_precision < 10, and the "<?xml" declaration
\* prepended when missing (ET.tostring emits none)
Serialize(elems, frac, svg_precision) ==
    [wf |-> TRUE,
     decl |-> TRUE,
     frac |-> IF svg_precision < 10 /\ frac > 0 THEN svg_precision ELSE frac,
     elems |-> elems]

\* outcomes of reading the file: the content, or an exception
ReadOutcomes == {"ok", "raise"}
\* outcomes of `with open(svg_file, 'w') as file: file.write(text)`: written;
\* open raises (file untouched); open truncates and the write raises
WriteOutcomes == {"ok", "open_raises", "write_raises"}

\* the file after a write attempt with the given outcome
AfterWrite(old, text, outcome) ==
    CASE outcome = "ok" -> text
      [] outcome = "open_raises" -> old
      [] OTHER -> EmptyFile

\* a failing file operation uses up one of the failures the environment has
Faulty(outcome) == outcome # "ok"
FaultAllowed(outcome) == Faulty(outcome) => faults > 0
FaultsAfter(outcome) == IF Faulty(outcome) THEN faults - 1 ELSE faults

\* where colorize_svg ends after the handler of the fallback's own failure
\* (except Exception as fallback_error: print(...))
AfterFallbackError == "done"

\* lines 160-161: read the file inside the outer try
CzRead ==
    /\ czPc = "read"
    /\ czTrace' = Append(czTrace, "read")
    /\ \E outcome \in ReadOutcomes :
          /\ FaultAllowed(outcome)
          /\ faults' = FaultsAfter(outcome)
          /\ IF outcome = "ok"
             THEN /\ czMem' = [czMem EXCEPT !.svg_content = czFile]
                  /\ czPc' = "parse"
             ELSE /\ czMem' = czMem
                  /\ czPc' = "fallback_read"
    /\ UNCHANGED <<czIn, czFile, czOrig, harnessVars, batchVars>>

\* lines 164-166: ET.fromstring, ParseError caught by the inner handler
CzParse ==
    /\ czPc = "parse"
    /\ czTrace' = Append(czTrace, "parse")
    /\ IF czMem.svg_content.wf
       THEN /\ czMem' = [czMem EXCEPT !.root = czMem.svg_content.elems]
            /\ czPc' = "edit"
       ELSE /\ czMem' = czMem
            /\ czPc' = "parse_error_regex"
    /\ UNCHANGED <<faults, czIn, czFile, czOrig, harnessVars, batchVars>>

\* lines 167-172: regex substitution in the ParseError handler, written back;
\* an exception of the write reaches the outer handler
CzParseErrorRegex ==
    /\ czPc = "parse_error_regex"
    /\ czTrace' = Append(czTrace, "parse_error_regex")
    /\ \E outcome \in WriteOutcomes :
          /\ FaultAllowed(outcome)
          /\ faults' = FaultsAfter(outcome)
          /\ czFile' = AfterWrite(czFile, RegexSub(czMem.svg_content, czIn.color), outcome)
          /\ czPc' = IF outcome = "ok" THEN "done" ELSE "fallback_read"
    /\ UNCHANGED <<czIn, czOrig, czMem, harnessVars, batchVars>>

\* lines 174-205: the path loop, the rect loop and the modified flag
CzEdit ==
    /\ czPc = "edit"
    /\ czTrace' = Append(czTrace, "edit")
    /\ czMem' = [czMem EXCEPT !.root = EditTree(czMem.root, czIn.color,
                                                czIn.background_color)]
    /\ czPc' = IF Modified(czMem.root) THEN "serialize" ELSE "empty_regex"
    /\ UNCHANGED <<faults, czIn, czFile, czOrig, harnessVars, batchVars>>

\* lines 205-211: nothing matched, regex substitution on the text read
CzEmptyRegex ==
    /\ czPc = "empty_regex"
    /\ czTrace' = Append(czTrace, "empty_regex")
    /\ \E outcome \in WriteOutcomes :
          /\ FaultAllowed(outcome)
          /\ faults' = FaultsAfter(outcome)
          /\ czFile' = AfterWrite(czFile, RegexSub(czMem.svg_content, czIn.color), outcome)
          /\ czPc' = IF outcome = "ok" THEN "done" ELSE "fallback_read"
    /\ UNCHANGED <<czIn, czOrig, czMem, harnessVars, batchVars>>

\* lines 213-228: serialize, precision rewrite, declaration
CzSerialize ==
    /\ czPc = "serialize"
    /\ czTrace' = Append(czTrace, "serialize")
    /\ czMem' = [czMem EXCEPT !.out = Serialize(czMem.root, czMem.svg_content.frac,
                                                czIn.svg_precision)]
    /\ czPc' = "write"
    /\ UNCHANGED <<faults, czIn, czFile, czOrig, harnessVars, batchVars>>

\* lines 230-231: write the serialized tree
CzWrite ==
    /\ czPc = "write"
    /\ czTrace' = Append(czTrace, "write")
    /\ \E outcome \in WriteOutcomes :
          /\ FaultAllowed(outcome)
          /\ faults' = FaultsAfter(outcome)
          /\ czFile' = AfterWrite(czFile, czMem.out, outcome)
          /\ czPc' = IF outcome = "ok" THEN "done" ELSE "fallback_read"
    /\ UNCHANGED <<czIn, czOrig, czMem, harnessVars, batchVars>>

\* lines 233-239: the outer handler reads the file again and substitutes
CzFallbackRead ==
    /\ czPc = "fallback_read"
    /\ czTrace' = Append(czTrace, "fallback_read")
    /\ \E outcome \in ReadOutcomes :
          /\ FaultAllowed(outcome)
          /\ faults' = FaultsAfter(outcome)
          /\ IF outcome = "ok"
             THEN /\ czMem' = [czMem EXCEPT !.svg_content = czFile]
                  /\ czPc' = "fallback_write"
             ELSE /\ czMem' = czMem
                  /\ czPc' = "fallback_error"
    /\ UNCHANGED <<czIn, czFile, czOrig, harnessVars, batchVars>>

\* lines 239-241: the fallback's substitution, written back
CzFallbackWrite ==
    /\ czPc = "fallback_write"
    /\ czTrace' = Append(czTrace, "fallback_write")
    /\ \E outcome \in WriteOutcomes :
          /\ FaultAllowed(outcome)
          /\ faults' = FaultsAfter(outcome)
          /\ czFile' = AfterWrite(czFile, RegexSub(czMem.svg_content, czIn.color), outcome)
          /\ czPc' = IF outcome = "ok" THEN "done" ELSE "fallback_error"
    /\ UNCHANGED <<czIn, czOrig, czMem, harnessVars, batchVars>>

\* lines 242-243: the fallback failed too; the error is printed
CzFallbackError ==
    /\ czPc = "fallback_error"
    /\ czTrace' = Append(czTrace, "fallback_error")
    /\ czPc' = AfterFallbackError
    /\ UNCHANGED <<faults, czIn, czFile, czOrig, czMem, harnessVars, batchVars>>

(***************************************************************************)
(* create_qr_codes                                                         *)
(***************************************************************************)
Png == <<"p", "n", "g">>
Svg == <<"s", "v", "g">>

\* width of the serial in f"{i:08d}"
SerialWidth == 8

\* mutant of Serial: the serial is not padded
SerialUnpadded(n) == ToDigits(n)

\* serial = f"{i:08d}"
Serial(n) ==
    LET d == ToDigits(n)
    IN IF Len(d) >= SerialWidth THEN d
       ELSE [k \in 1..(SerialWidth - Len(d)) |-> "0"] \o d

\* f"M-{valid_uses}-{serial}-{volume}-{end_date}-{security_code}-{suffix_code}"
SequentialPayload(a, n) ==
    <<"M", "-">> \o a.valid_uses \o <<"-">> \o Serial(n) \o <<"-">> \o a.volume
    \o <<"-">> \o a.end_date \o <<"-">> \o a.security_code \o <<"-">> \o a.suffix_code

\* the number of records of the run: len(csv_data) or count
Total(a) == IF a.csv_mode THEN Len(a.csv_data) ELSE a.count

\* mutant of RowHasColumn: the bound check is off by one
RowHasColumnOffByOne(row, input_column) == ~(Len(row) <= input_column + 1)

\* the negation of the skip test `len(row) <= input_column`
RowHasColumn(row, input_column) == ~(Len(row) <= input_column)

\* the payload of record n (1-based): row[input_column] or the template
PayloadOf(a, n) ==
    IF a.csv_mode THEN a.csv_data[n][a.input_column + 1]
    ELSE SequentialPayload(a, n)

\* what the encoder renders for the vector format: SvgFillImage output, a
\* white background rect followed by the module rects, all namespaced
RenderedSvg ==
    [wf |-> TRUE, decl |-> TRUE, frac |-> 1,
     elems |-> <<[tag |-> "svg", ns |-> TRUE, fill |-> <<>>],
                 [tag |-> "rect", ns |-> TRUE, fill |-> <<<<"#", "F", "F", "F", "F", "F", "F">>>>],
                 [tag |-> "rect", ns |-> TRUE, fill |-> <<>>]>>]

\* the file img.save writes for a payload
Rendered(payload, format) ==
    [payload |-> payload, format |-> format,
     doc |-> IF format = Svg THEN RenderedSvg
             ELSE [wf |-> FALSE, decl |-> FALSE, frac |-> 0, elems |-> <<>>]]

\* outcomes of qrcode.QRCode(...), add_data, make and make_image for an item
EncoderOutcomes == {"ok", "raise"}

\* mutant of AfterEncoderError: the loop swallows the exception and goes on
AfterEncoderErrorContinue == "loop"

\* create_qr_codes has no handler around the encoder: the exception leaves it
AfterEncoderError == "raised"

\* background_color default of colorize_svg, which create_qr_codes never passes
DefaultBackground == <<"#", "F", "F", "F", "F", "F", "F">>

\* get_error_correction_level(level_str): levels.get(level_str.upper(),
\* ERROR_CORRECT_L), for the level strings drawn
ErrorCorrectionLevel(level_str) ==
    CASE level_str \in {"L", "l"} -> "ERROR_CORRECT_L"
      [] level_str \in {"M", "m"} -> "ERROR_CORRECT_M"
      [] level_str \in {"Q", "q"} -> "ERROR_CORRECT_Q"
      [] level_str \in {"H", "h"} -> "ERROR_CORRECT_H"
      [] OTHER -> "ERROR_CORRECT_L"

\* a call create_qr_codes makes while item is in hand (0: outside the loop)
Event(op, item, data) == [op |-> op, item |-> item, data |-> data]

\* mutant of ProgressCurrent: the callback gets the 1-based number
ProgressCurrentOneBased(index) == index

\* the current value of the callback before the record with 1-based number
\* index: i of enumerate(csv_data), i-1 of range(1, count + 1)
ProgressCurrent(index) == index - 1

\* `if progress_callback: progress_callback(current, total, message)`
Progress(a, item, current) ==
    IF a.progress_callback
    THEN <<Event("progress_callback", item, [current |-> current, total |-> Total(a)])>>
    ELSE <<>>

\* mutant of EncoderSetup: the version of an item is its number
EncoderSetupPerItem(a, error_correction_level, index) ==
    [version |-> <<index>>, error_correction |-> error_correction_level,
     box_size |-> a.box_size, border |-> a.border]

\* qrcode.QRCode(version=qr_version, error_correction=error_correction_level,
\* box_size=box_size, border=border)
EncoderSetup(a, error_correction_level, index) ==
    [version |-> a.qr_version, error_correction |-> error_correction_level,
     box_size |-> a.box_size, border |-> a.border]

\* line 58-62: os.makedirs(output_folder, exist_ok=True), factory, level
CqStart ==
    /\ pc = "makedirs"
    /\ dirMade' = TRUE
    /\ level' = <<ErrorCorrectionLevel(args.error_correction)>>
    /\ cqTrace' = cqTrace \o <<Event("makedirs", 0, <<>>),
                                Event("get_error_correction_level", 0, level')>>
    /\ i' = 0
    /\ pc' = "loop"
    /\ UNCHANGED <<entry, ui, args, cur, encoded, files, writes, reported,
                   harnessVars, czVars>>

\* mutant of NextRecord: the loop steps over every second record
NextRecordSkipsOne(done) == done + 2

\* `for i, row in enumerate(csv_data)`, `for i in range(1, count + 1)`: the
\* number of records done once one more is done
NextRecord(done) == done + 1

\* lines 67-73: a CSV row without the column is skipped
CqSkipRow ==
    /\ pc = "loop"
    /\ i < Total(args)
    /\ args.csv_mode
    /\ ~RowHasColumn(args.csv_data[i + 1], args.input_column)
    /\ cqTrace' = cqTrace \o Progress(args, i + 1, ProgressCurrent(i + 1))
                          \o <<Event("skip", i + 1, <<>>)>>
    /\ i' = NextRecord(i)
    /\ UNCHANGED <<pc, entry, ui, args, cur, encoded, dirMade, level, files, writes,
                   reported, harnessVars, czVars>>

\* lines 75-85 and 104-119: build the payload and render it
CqRender ==
    /\ pc = "loop"
    /\ i < Total(args)
    /\ args.csv_mode => RowHasColumn(args.csv_data[i + 1], args.input_column)
    /\ cqTrace' = cqTrace \o Progress(args, i + 1, ProgressCurrent(i + 1))
                          \o <<Event("QRCode", i + 1, EncoderSetup(args, level[1], i + 1))>>
    /\ LET payload == PayloadOf(args, i + 1)
       IN \E outcome \in EncoderOutcomes :
             IF outcome = "ok"
             THEN /\ encoded' = Append(encoded, payload)
                  /\ cur' = [payload |-> payload, index |-> i + 1, filename |-> <<>>]
                  /\ pc' = "name"
             ELSE /\ encoded' = encoded
                  /\ cur' = [payload |-> payload, index |-> i + 1, filename |-> <<>>]
                  /\ pc' = AfterEncoderError
    /\ UNCHANGED <<entry, ui, args, i, dirMade, level, files, writes, reported,
                   harnessVars, czVars>>

\* lines 87-92 and 121-126: the file name of the item
CqName ==
    /\ pc = "name"
    /\ cur' = [cur EXCEPT !.filename =
                  GenerateCustomFilename(cur.payload, args.filename_prefix,
                                         args.filename_suffix,
                                         args.use_payload_as_filename, <<cur.index>>)
                  \o <<".">> \o args.format]
    /\ cqTrace' = Append(cqTrace, Event("generate_custom_filename", cur.index, <<>>))
    /\ pc' = "save"
    /\ UNCHANGED <<entry, ui, args, i, encoded, dirMade, level, files, writes, reported,
                   harnessVars, czVars>>

\* mutant of AfterSave: every format is colorized
AfterSaveAlwaysColorize(format) == "colorize"

\* lines 94-101 and 128-135: only the svg branch calls colorize_svg
AfterSave(format) == IF format = Svg THEN "colorize" ELSE "loop"

\* lines 94-98 and 128-132: img.save(filename)
CqSave ==
    /\ pc = "save"
    /\ files' = [n \in DOMAIN files \cup {cur.filename} |->
                    IF n = cur.filename THEN Rendered(cur.payload, args.format)
                    ELSE files[n]]
    /\ writes' = Append(writes, cur.filename)
    /\ cqTrace' = Append(cqTrace, Event("save", cur.index, cur.filename))
    /\ pc' = AfterSave(args.format)
    /\ i' = IF pc' = "colorize" THEN i ELSE NextRecord(i)
    /\ UNCHANGED <<entry, ui, args, cur, encoded, dirMade, level, reported,
                   harnessVars, czVars>>

\* lines 99 and 133: colorize_svg(filename, color, svg_precision=svg_precision)
CqColorizeCall ==
    /\ pc = "colorize"
    /\ czPc = "idle"
    /\ czPc' = "read"
    /\ czIn' = [color |-> args.color, background_color |-> DefaultBackground,
                svg_precision |-> args.svg_precision]
    /\ czFile' = files[cur.filename].doc
    /\ czOrig' = files[cur.filename].doc
    /\ czMem' = [svg_content |-> <<>>, root |-> <<>>, out |-> <<>>]
    /\ czTrace' = <<>>
    /\ cqTrace' = Append(cqTrace, Event("colorize_svg", cur.index, cur.filename))
    /\ pc' = "colorizing"
    /\ UNCHANGED <<entry, ui, args, i, cur, encoded, dirMade, level, files, writes,
                   reported, faults, harnessVars>>

\* colorize_svg returned: the file holds what it left, the loop goes on
CqColorizeReturn ==
    /\ pc = "colorizing"
    /\ czPc = "done"
    /\ files' = [files EXCEPT ![cur.filename].doc = czFile]
    /\ czPc' = "idle"
    /\ czIn' = <<>> /\ czFile' = <<>> /\ czOrig' = <<>> /\ czMem' = <<>>
    /\ czTrace' = <<>>
    /\ cqTrace' = Append(cqTrace, Event("colorize_svg returned", cur.index, cur.filename))
    /\ i' = NextRecord(i)
    /\ pc' = "loop"
    /\ UNCHANGED <<entry, ui, args, cur, encoded, dirMade, level, writes, reported,
                   faults, harnessVars>>

\* lines 137-145: the loop is over, return output_folder
CqReturn ==
    /\ pc = "loop"
    /\ i >= Total(args)
    /\ cqTrace' = cqTrace \o Progress(args, 0, Total(args))
                          \o <<Event("return", 0, <<>>)>>
    /\ pc' = "returned"
    /\ UNCHANGED <<entry, ui, args, i, cur, encoded, dirMade, level, files, writes,
                   reported, harnessVars, czVars>>

(***************************************************************************)
(* zip_output_files and clean_output_folder (src/src/file_utils.py)        *)
(*                                                                         *)
(* A file system is a function from paths to nodes. A path is a text with  *)
(* "/" between its components; a node is a record whose kind is "dir" or   *)
(* "file". An archive is a file whose entries are the set of               *)
(* [arcname, source] it holds.                                             *)
(***************************************************************************)
\* s.startswith(p)
StartsWith(s, p) == Len(s) >= Len(p) /\ SubSeq(s, 1, Len(p)) = p

\* s.endswith(p)
EndsWith(s, p) == Len(s) >= Len(p) /\ SubSeq(s, Len(s) - Len(p) + 1, Len(s)) = p

\* the positions of "/" in a path
Slashes(path) == {k \in 1..Len(path) : path[k] = "/"}

\* the last component of a path: the name os.walk lists
BaseName(path) ==
    IF Slashes(path) = {} THEN path
    ELSE SubSeq(path, (CHOOSE k \in Slashes(path) : \A j \in Slashes(path) : j <= k) + 1,
                Len(path))

\* the directory a path lies in, <<>> for the working directory
DirName(path) ==
    IF Slashes(path) = {} THEN <<>>
    ELSE SubSeq(path, 1, (CHOOSE k \in Slashes(path) : \A j \in Slashes(path) : j <= k) - 1)

IsDir(fs, path) == path = <<>> \/ (path \in DOMAIN fs /\ fs[path].kind = "dir")
IsFile(fs, path) == path \in DOMAIN fs /\ fs[path].kind = "file"

\* the files os.walk(folder) lists: the regular files at any depth under it
WalkFiles(fs, folder) ==
    {p \in DOMAIN fs : IsFile(fs, p) /\ IsDir(fs, folder) /\ StartsWith(p, folder \o <<"/">>)}

\* the fs with node n at path p
WithNode(fs, p, n) == [q \in DOMAIN fs \cup {p} |-> IF q = p THEN n ELSE fs[q]]

\* mutant of ZipEntries: the entry name is the path
ZipEntriesByPath(found, format) ==
    {[arcname |-> p, source |-> p] :
        p \in {q \in found : EndsWith(BaseName(q), <<".">> \o format)}}

\* the entries zipf.write adds for the files found: those whose name ends
\* with ".{format}", each under its base name
ZipEntries(found, format) ==
    {[arcname |-> BaseName(p), source |-> p] :
        p \in {q \in found : EndsWith(BaseName(q), <<".">> \o format)}}

\* zipfile.ZipFile(zip_file_name, 'w') succeeds: the directory is there and
\* the path is not a directory
CanOpenArchive(fs, zip_file_name) ==
    /\ IsDir(fs, DirName(zip_file_name))
    /\ ~IsDir(fs, zip_file_name)

\* what zip_output_files returns: nothing, so None (<<>>)
ZipReturnValue(zip_file_name) == <<>>

\* the matching files in the order os.walk may list them matter in one case
\* only: the archive itself is a matching file under the output folder and
\* not the only one. The archive is then read while it is written: with
\* little in it when its turn comes the read reaches its end and the call
\* completes; otherwise it grows without end until the call raises, leaving
\* the files listed before it
SelfIncluding(matching, zip_file_name) ==
    zip_file_name \in matching /\ matching # {zip_file_name}

\* zip_output_files(output_folder, zip_file_name, format): the outcomes
\* [fs, out] the call can have. The archive is created or truncated first,
\* so the walk finds it when it lies under the output folder
ZipOutputFiles(fs, output_folder, zip_file_name, format) ==
    IF ~CanOpenArchive(fs, zip_file_name)
    THEN {[fs |-> fs, out |-> Raises("OSError")]}
    ELSE LET opened == WithNode(fs, zip_file_name, [kind |-> "file", entries |-> {}])
             found == WalkFiles(opened, output_folder)
             matching == {e.source : e \in ZipEntries(found, format)}
             complete ==
                 [fs |-> WithNode(fs, zip_file_name,
                                  [kind |-> "file", entries |-> ZipEntries(found, format)]),
                  out |-> Returns(ZipReturnValue(zip_file_name))]
             runaway ==
                 {[fs |-> WithNode(fs, zip_file_name,
                                   [kind |-> "file", entries |-> ZipEntries(first, format)]),
                   out |-> Raises("RuntimeError")] :
                     first \in SUBSET (matching \ {zip_file_name}) \ {{}}}
         IN IF SelfIncluding(matching, zip_file_name)
            THEN {complete} \cup runaway
            ELSE {complete}

\* mutant of RemovedByClean: only the files directly in the folder go
RemovedByCleanTopLevel(fs, output_folder) ==
    {p \in WalkFiles(fs, output_folder) : DirName(p) = output_folder}

\* the paths clean_output_folder removes
RemovedByClean(fs, output_folder) == WalkFiles(fs, output_folder)

\* clean_output_folder(output_folder)
CleanOutputFolder(fs, output_folder) ==
    [fs |-> [p \in DOMAIN fs \ RemovedByClean(fs, output_folder) |-> fs[p]],
     out |-> Returns(<<>>)]

(***************************************************************************)
(* Entry points: how each caller validates its input and invokes           *)
(* create_qr_codes                                                         *)
(***************************************************************************)
\* the arguments every caller passes unchanged or leaves at their defaults
BaseArgs ==
    [valid_uses |-> <<>>, volume |-> <<>>, end_date |-> <<>>,
     security_code |-> <<"S", "E", "C", "D">>, suffix_code |-> <<"2", "3", "F", "F", "4", "5", "E", "E">>,
     count |-> 1, csv_mode |-> FALSE, csv_data |-> <<>>, input_column |-> 0,
     format |-> Png, color |-> <<"#", "0", "0", "0", "0", "0", "0">>,
     filename_prefix |-> <<>>, filename_suffix |-> <<>>,
     use_payload_as_filename |-> TRUE, svg_precision |-> 2,
     qr_version |-> <<>>, error_correction |-> "L", box_size |-> 10, border |-> 4,
     progress_callback |-> FALSE]

\* create_qr_codes(valid_uses, volume, end_date, color, ..., count, csv_data=None)
ManualArgs(u, valid_uses, volume, n) ==
    [BaseArgs EXCEPT !.valid_uses = valid_uses, !.volume = volume,
                     !.end_date = u.end_date, !.color = u.color,
                     !.security_code = u.security_code,
                     !.suffix_code = u.suffix_code, !.count = n,
                     !.format = u.format]

\* create_qr_codes(..., csv_data=rows, input_column=column)
CsvArgs(u, rows, format, color) ==
    [BaseArgs EXCEPT !.csv_mode = TRUE, !.csv_data = rows,
                     !.input_column = u.input_column,
                     !.format = format, !.color = color]

Report(kind, n) == [kind |-> kind, n |-> n]

\* the entry point ends without invoking create_qr_codes
Stop(where, kind) ==
    /\ pc' = where
    /\ reported' = Append(reported, Report(kind, 0))
    /\ args' = args

\* the entry point invokes create_qr_codes(a)
Invoke(a) ==
    /\ pc' = "makedirs"
    /\ args' = a
    /\ reported' = reported

EntryFrame == UNCHANGED <<entry, ui, i, cur, encoded, dirMade, level, cqTrace, files, writes,
                          harnessVars, czVars>>

\* a direct call of create_qr_codes, as the tests make
EntryDirect ==
    /\ pc = "entry" /\ entry = "direct"
    /\ Invoke(ui)
    /\ EntryFrame

\* QRGeneratorGUI.validate_parameters: every validator is called and its
\* result dropped, none of them raises, so only the output directory decides
GuiValidateParameters(u) ==
    IF u.output_directory = <<>> THEN Invalid("Please select an output directory")
    ELSE Valid(u.output_directory)

\* int(self.qr_version.get()) if self.qr_version.get() else None
GuiVersion(text) == IF text = <<>> THEN <<TRUE>> ELSE PyInt(text, 10)

\* QRGeneratorGUI.generate_qr_codes in manual mode, with
\* execute_manual_generation: count is an IntVar, so a count that is no
\* integer raises in get(); int(qr_version) raises for "auto"
EntryGuiManual ==
    /\ pc = "entry" /\ entry = "gui_manual"
    /\ IF PyInt(ui.count, 10) = <<>> THEN Stop("failed", "error")
       ELSE IF ~GuiValidateParameters(ui).ok THEN Stop("rejected", "invalid")
       ELSE IF GuiVersion(ui.qr_version) = <<>> THEN Stop("failed", "error")
       ELSE Invoke(ManualArgs(ui, ui.valid_uses, ui.volume, PyInt(ui.count, 10)[1]))
    /\ EntryFrame

\* ManualModeHandler.validate_inputs
HandlerValidateInputs(u) ==
    IF \E f \in {u.valid_uses, u.volume, u.end_date, u.color} : Strip(f) = <<>>
    THEN Invalid("Required fields are empty")
    ELSE IF PyInt(u.count, 10) = <<>> THEN Invalid("Count must be a valid number")
    ELSE IF PyInt(u.count, 10)[1] <= 0 THEN Invalid("Count must be a positive integer")
    ELSE Valid(u.count)

\* ManualModeHandler: validate_inputs, then execute_generation up to its call
\* of create_qr_codes
EntryManualModeHandler ==
    /\ pc = "entry" /\ entry = "ManualModeHandler"
    /\ IF ~HandlerValidateInputs(ui).ok THEN Stop("rejected", "invalid")
       ELSE Invoke(ManualArgs(ui, ui.valid_uses, ui.volume, PyInt(ui.count, 10)[1]))
    /\ EntryFrame

\* simpledialog.askinteger: the integer typed, <<>> when cancelled
AskInteger(text) == PyInt(text, 10)

\* main_legacy, count dialog (lines 3059-3068)
LegacyCount(u) ==
    IF AskInteger(u.count) = <<>> \/ AskInteger(u.count)[1] = 0
    THEN Invalid("No count entered. Exiting.")
    ELSE ValidateIntegerValue(AskInteger(u.count)[1], 1, <<10000>>)

\* main_legacy, manual parameters typed into the dialogs (lines 2986-3047)
LegacyDialogs(u) ==
    IF u.valid_uses = <<>> THEN Invalid("No valid uses entered. Exiting.")
    ELSE IF ~ValidateIntegerInput(u.valid_uses, 1, <<9999>>).ok
    THEN ValidateIntegerInput(u.valid_uses, 1, <<9999>>)
    ELSE IF u.volume = <<>> THEN Invalid("No volume entered. Exiting.")
    ELSE IF ~ValidateIntegerInput(u.volume, 1, <<99999>>).ok
    THEN ValidateIntegerInput(u.volume, 1, <<99999>>)
    ELSE IF u.end_date = <<>> THEN Invalid("No end date entered. Exiting.")
    ELSE IF ~ValidateDateFormat(u.end_date).ok THEN ValidateDateFormat(u.end_date)
    ELSE IF ~ValidateColorFormat(u.color).ok THEN ValidateColorFormat(u.color)
    ELSE IF ~ValidateFormat(u.format).ok THEN ValidateFormat(u.format)
    ELSE IF u.security_code = <<>> THEN Invalid("No security code entered. Exiting.")
    ELSE IF u.suffix_code = <<>> THEN Invalid("No suffix code entered. Exiting.")
    ELSE Valid(u.end_date)

\* main_legacy without a preset, manual parameters
EntryMainLegacyManual ==
    /\ pc = "entry" /\ entry = "main_legacy_manual"
    /\ IF ~LegacyDialogs(ui).ok THEN Stop("rejected", "invalid")
       ELSE IF ~LegacyCount(ui).ok THEN Stop("rejected", "invalid")
       ELSE Invoke(ManualArgs([ui EXCEPT !.format = ValidateFormat(ui.format).val],
                              ToDigits(ValidateIntegerInput(ui.valid_uses, 1, <<9999>>).val),
                              ToDigits(ValidateIntegerInput(ui.volume, 1, <<99999>>).val),
                              LegacyCount(ui).val))
    /\ EntryFrame

\* main_legacy with a loaded manual preset (lines 2972-2984): the preset's
\* values are used as stored; the user confirms them; count is asked
EntryMainLegacyPreset ==
    /\ pc = "entry" /\ entry = "main_legacy_preset"
    /\ IF ~ui.confirm THEN Stop("rejected", "declined")
       ELSE IF ~LegacyCount(ui).ok THEN Stop("rejected", "invalid")
       ELSE Invoke(ManualArgs(ui, ui.valid_uses, ui.volume, LegacyCount(ui).val))
    /\ EntryFrame

\* main_legacy, CSV mode without a preset (lines 2798-2817, 2894-2938):
\* next(reader) on an empty file raises into the handler
EntryMainLegacyCsv ==
    /\ pc = "entry" /\ entry = "main_legacy_csv"
    /\ IF ~ValidateFormat(ui.format).ok THEN Stop("rejected", "invalid")
       ELSE IF ~ValidateColorFormat(ui.color).ok THEN Stop("rejected", "invalid")
       ELSE IF ui.skip_first_row /\ ui.table = <<>> THEN Stop("failed", "error")
       ELSE LET rows == IF ui.skip_first_row THEN Tail(ui.table) ELSE ui.table
            IN IF rows = <<>> THEN Stop("failed", "error")
               ELSE Invoke(CsvArgs(ui, rows, ValidateFormat(ui.format).val, ui.color))
    /\ EntryFrame

\* qr_data_list of CSVModeHandler.execute_generation: the cells of the rows
\* after the first that have the column
RECURSIVE QrDataList(_, _)
QrDataList(rows, column_index) ==
    IF rows = <<>> THEN <<>>
    ELSE IF Len(Head(rows)) > column_index
    THEN <<Head(rows)[column_index + 1]>> \o QrDataList(Tail(rows), column_index)
    ELSE QrDataList(Tail(rows), column_index)

\* the csv_data CSVModeHandler.execute_generation passes to create_qr_codes
HandlerCsvData(csv_data) == csv_data

\* CSVModeHandler.execute_generation up to its call of create_qr_codes
EntryCSVModeHandler ==
    /\ pc = "entry" /\ entry = "CSVModeHandler"
    /\ IF ui.table = <<>> THEN Stop("failed", "error")
       ELSE IF ui.input_column >= Len(ui.table[1]) THEN Stop("failed", "error")
       ELSE IF QrDataList(Tail(ui.table), ui.input_column) = <<>>
       THEN Stop("failed", "error")
       ELSE /\ pc' = "makedirs"
            /\ args' = CsvArgs(ui, HandlerCsvData(ui.table), ui.format, ui.color)
            /\ reported' = Append(reported,
                    Report("start", Len(QrDataList(Tail(ui.table), ui.input_column))))
    /\ EntryFrame

\* the output folder of a run, as a path from the working directory
OutputFolder == <<"o", "u", "t">>

\* the output folder as a file system: the files of the run lie directly in it
FolderView(fl) ==
    [p \in {OutputFolder} \cup {OutputFolder \o <<"/">> \o n : n \in DOMAIN fl} |->
        IF p = OutputFolder THEN [kind |-> "dir"] ELSE [kind |-> "file"]]

\* the files of the run after the caller archived and cleaned: the archive
\* lies in the working directory, one level above the output folder
AfterPackaging(fl, archive, zip_file_name, zipped, cleaned) ==
    LET kept == IF cleaned THEN {} ELSE DOMAIN fl
        added == IF zipped THEN {<<".", ".", "/">> \o zip_file_name} ELSE {}
    IN [n \in kept \cup added |-> IF n \in kept THEN fl[n] ELSE archive]

\* what the caller tells the user when the run is over
Completed(n, zip_path) == [kind |-> "complete", n |-> n, zip_path |-> zip_path]

\* CSVModeHandler.execute_generation after create_qr_codes returned (lines
\* 215-225): archive, clean, report count = len(qr_data_list)
CompleteCSVModeHandler ==
    /\ pc = "returned" /\ entry = "CSVModeHandler"
    /\ LET zip_file_name == <<"q", "r", "_", "c", "o", "d", "e", "s", "_", "c", "s", "v", ".">> \o args.format
           count == Len(QrDataList(Tail(ui.table), ui.input_column))
       IN \E z \in ZipOutputFiles(FolderView(files), OutputFolder, zip_file_name,
                                  args.format) :
             /\ files' = AfterPackaging(files, z.fs[zip_file_name], zip_file_name,
                                        TRUE, TRUE)
             /\ reported' = Append(reported, Completed(count, z.out.result))
    /\ pc' = "completed"
    /\ UNCHANGED <<entry, ui, args, i, cur, encoded, dirMade, level, cqTrace, writes,
                   harnessVars, czVars>>

\* the names bound at module level of mode_handlers.py: its imports and
\* its classes
HandlerGlobals ==
    {"os", "tk", "ABC", "abstractmethod", "detect_delimiter", "zip_output_files",
     "clean_output_folder", "create_qr_codes", "csv", "ModeHandler",
     "ManualModeHandler", "CSVModeHandler"}

\* the names ManualModeHandler.execute_generation has bound when
\* create_qr_codes has returned (lines 82-94)
ManualHandlerLocals == {"self", "count", "params", "result_folder"}

\* the evaluation of a bare name in a method: a local, else a module global,
\* else NameError
NameLookup(name, locals) ==
    IF name \in locals \cup HandlerGlobals THEN Returns(name)
    ELSE Raises("NameError")

\* ManualModeHandler.execute_generation after create_qr_codes returned (lines
\* 96-108): the arguments of zip_output_files are evaluated first, among them
\* the name format_type; an exception ends in handle_error
CompleteManualModeHandler ==
    /\ pc = "returned" /\ entry = "ManualModeHandler"
    /\ IF NameLookup("format_type", ManualHandlerLocals).raised
       THEN /\ reported' = Append(reported, Report("handle_error", 0))
            /\ files' = files
            /\ pc' = "handled_error"
       ELSE LET zip_file_name == IF args.count = 1
                                 THEN <<"q", "r", "_", "c", "o", "d", "e", ".">> \o args.format
                                 ELSE <<"q", "r", "_", "c", "o", "d", "e", "s", "_">>
                                      \o ToDigits(args.count) \o <<".">> \o args.format
            IN \E z \in ZipOutputFiles(FolderView(files), OutputFolder, zip_file_name,
                                       args.format) :
                  /\ files' = AfterPackaging(files, z.fs[zip_file_name], zip_file_name,
                                             TRUE, TRUE)
                  /\ reported' = Append(reported, Completed(args.count, z.out.result))
                  /\ pc' = "completed"
    /\ UNCHANGED <<entry, ui, args, i, cur, encoded, dirMade, level, cqTrace, writes,
                   harnessVars, czVars>>

\* QRGeneratorGUI.create_zip_file (lines 2121-2142): every file under the
\* folder goes into qr_codes_{timestamp}.zip next to the folder, under its
\* path relative to the folder; an exception is caught and shown as a warning
GuiZipFileName == <<"q", "r", "_", "c", "o", "d", "e", "s", "_", "t", ".", "z", "i", "p">>

GuiArchive(fl) ==
    [kind |-> "file",
     entries |-> {[arcname |-> n, source |-> OutputFolder \o <<"/">> \o n] :
                     n \in DOMAIN fl}]

\* `if self.cleanup_temp.get(): self.cleanup_temp_files(result_folder)`
\* (lines 2054-2056 and 2105-2107): the check box alone decides
GuiCleanupRuns(cleanup_temp, create_zip, archived) == cleanup_temp

\* QRGeneratorGUI.execute_manual_generation after create_qr_codes returned
\* (lines 2101-2116; execute_csv_generation has the same statements at
\* 2050-2061): archive if asked, remove the folder if asked, show the result
CompleteGuiManual ==
    /\ pc = "returned" /\ entry = "gui_manual"
    /\ \E create_zip \in BOOLEAN, cleanup_temp \in BOOLEAN, outcome \in {"ok", "raises"} :
          LET archived == create_zip /\ outcome = "ok"
              cleaned == GuiCleanupRuns(cleanup_temp, create_zip, archived)
          IN /\ ~create_zip => outcome = "ok"
             /\ FaultAllowed(outcome)
             /\ faults' = FaultsAfter(outcome)
             /\ files' = AfterPackaging(files, GuiArchive(files), GuiZipFileName,
                                        archived, cleaned)
             /\ reported' = reported
                   \o (IF ~create_zip THEN <<>>
                       ELSE IF archived THEN <<Report("create_zip_file", Len(writes))>>
                       ELSE <<Report("create_zip_file failed", 0)>>)
                   \o (IF cleaned THEN <<Report("cleanup_temp_files", 0)>> ELSE <<>>)
                   \o <<Completed(args.count, <<>>)>>
    /\ pc' = "completed"
    /\ UNCHANGED <<entry, ui, args, i, cur, encoded, dirMade, level, cqTrace, writes,
                   harnessVars, czPc, czIn, czFile, czOrig, czMem, czTrace>>

\* main_legacy in CSV mode after create_qr_codes returned (lines 2940-2953):
\* report len(rows), archive if the user asked for it, clean if the user
\* says so
CompleteMainLegacyCsv ==
    /\ pc = "returned" /\ entry = "main_legacy_csv"
    /\ \E zip_output \in BOOLEAN, cleanup_files \in BOOLEAN :
          LET zip_file_name == <<"o", "u", "t", "p", "u", "t", "_">> \o args.format \o <<".", "z", "i", "p">>
          IN \E z \in ZipOutputFiles(FolderView(files), OutputFolder, zip_file_name,
                                     args.format) :
                files' = AfterPackaging(files, z.fs[zip_file_name], zip_file_name,
                                        zip_output, cleanup_files)
    /\ reported' = Append(reported, Completed(Len(args.csv_data), <<>>))
    /\ pc' = "completed"
    /\ UNCHANGED <<entry, ui, args, i, cur, encoded, dirMade, level, cqTrace, writes,
                   harnessVars, czVars>>

(***************************************************************************)
(* Values the variables of the parts not under study are parked at          *)
(***************************************************************************)
NoCall == [op |-> "none"]

HarnessIdle == call = NoCall /\ ret = <<>> /\ log = <<>> /\ disk = <<>>

BatchIdle ==
    /\ pc = "idle" /\ entry = "none" /\ ui = <<>> /\ args = <<>> /\ i = 0
    /\ cur = <<>> /\ encoded = <<>> /\ dirMade = FALSE /\ files = <<>>
    /\ level = <<>> /\ cqTrace = <<>>
    /\ writes = <<>> /\ reported = <<>>

ColorizeIdle ==
    /\ czPc = "idle" /\ czIn = <<>> /\ czFile = <<>> /\ czOrig = <<>>
    /\ czMem = <<>> /\ czTrace = <<>> /\ faults = 0

(***************************************************************************)
(* Harness for the pure function generate_custom_filename                  *)
(***************************************************************************)
\* characters payloads are drawn from: kept ones and stripped ones
FnAlphabet == {"a", "7", " ", ".", "_", "-", "/", "?", "=", "&", ":"}

\* all texts of length 0..n over the characters cs
TextsUpTo(cs, n) == UNION {[1..k -> cs] : k \in 0..n}

FnPrefixes == {<<>>, <<"P">>, <<"a", "/", "b">>}
FnSuffixes == {<<>>, <<"S">>, <<"v", ":", "1">>}
FnIndexes == {<<>>, <<1>>, <<MaxIndex>>}

InitFilename ==
    /\ call \in [op : {"generate_custom_filename"},
                 base_name : TextsUpTo(FnAlphabet, MaxLen),
                 prefix : FnPrefixes,
                 suffix : FnSuffixes,
                 use_payload_as_base : BOOLEAN,
                 index : FnIndexes]
    /\ ret = <<>> /\ log = <<>> /\ disk = <<>>
    /\ BatchIdle
    /\ ColorizeIdle

CallGenerateCustomFilename ==
    /\ call.op = "generate_custom_filename"
    /\ ret = <<>>
    /\ ret' = <<GenerateCustomFilename(call.base_name, call.prefix, call.suffix,
                                       call.use_payload_as_base, call.index)>>
    /\ UNCHANGED <<call, log, disk, batchVars, czVars>>

NextFilename == CallGenerateCustomFilename

SpecFilename == InitFilename /\ [][NextFilename]_vars

(***************************************************************************)
(* Claims about generate_custom_filename                                   *)
(***************************************************************************)
FnReturned == call.op = "generate_custom_filename" /\ ret # <<>>

\* the characters the filter keeps besides alphanumerics
RefKept == {" ", "-", "_", "."}

\* the payload without the characters that are neither alphanumeric nor kept
RefFiltered(payload) == SelectSeq(payload, LAMBDA c : IsAlnum(c) \/ c \in RefKept)

\* t without its trailing periods: its longest prefix not ending in a period
RefNoTrailingDots(t) ==
    LET ends == {k \in 0..Len(t) : k = 0 \/ t[k] # "."}
        n == CHOOSE k \in ends : \A m \in ends : m <= k
    IN SubSeq(t, 1, n)

\* "qr_code_{index}" for an index below 100
RefIndexName(n) ==
    <<"q", "r", "_", "c", "o", "d", "e", "_">>
    \o (IF n < 10 THEN <<DigitChars[n + 1]>>
        ELSE <<DigitChars[(n \div 10) + 1], DigitChars[(n % 10) + 1]>>)

RefBase(payload, use_payload, n) ==
    LET b == RefNoTrailingDots(RefFiltered(payload))
    IN IF use_payload /\ b # <<>> THEN b ELSE RefIndexName(n)

RefFilename(payload, prefix, suffix, use_payload, n) ==
    LET b == RefBase(payload, use_payload, n)
    IN CASE prefix = <<>> /\ suffix = <<>> -> b
         [] prefix # <<>> /\ suffix = <<>> -> prefix \o <<"_">> \o b
         [] prefix = <<>> /\ suffix # <<>> -> b \o <<"_">> \o suffix
         [] OTHER -> prefix \o <<"_">> \o b \o <<"_">> \o suffix

FnUnsafe == {"/", "?", "=", "&", ":"}

\* C8: with use_payload_as_base the name returned by generate_custom_filename
\* contains none of the characters / ? = & : whatever the payload, prefix,
\* suffix and index are.
C8_FilenameSafe ==
    (FnReturned /\ call.use_payload_as_base) =>
        \A k \in 1..Len(ret[1]) : ret[1][k] \notin FnUnsafe

(***************************************************************************)
(* colorize_svg on an arbitrary artifact                                   *)
(***************************************************************************)
Black == <<"#", "0", "0", "0", "0", "0", "0">>
White == <<"#", "F", "F", "F", "F", "F", "F">>
Magenta == <<"#", "F", "F", "0", "0", "F", "F">>

CzFills == {<<>>, <<Black>>}

\* the elements artifacts are built from: rects and paths, namespaced or
\* bare, a group that neither lookup matches, and a rect with fill=""
CzElems ==
    [tag : {"rect"}, ns : BOOLEAN, fill : CzFills]
    \cup [tag : {"path"}, ns : BOOLEAN, fill : {<<Black>>}]
    \cup [tag : {"g"}, ns : {TRUE}, fill : CzFills]
    \cup {[tag |-> "rect", ns |-> FALSE, fill |-> <<<<>>>>]}

CzRoot == [tag |-> "svg", ns |-> TRUE, fill |-> <<>>]

CzArtifacts ==
    {[wf |-> w, decl |-> d, frac |-> f, elems |-> <<CzRoot>> \o below] :
        w \in BOOLEAN, d \in BOOLEAN, f \in {0, 1},
        below \in UNION {[1..n -> CzElems] : n \in 0..MaxElems}}
    \cup {EmptyFile}

InitColorize ==
    /\ czPc = "read"
    /\ czIn \in [color : {Magenta}, background_color : {White},
                 svg_precision : {2, 10}]
    /\ czFile \in CzArtifacts
    /\ czOrig = czFile
    /\ czMem = [svg_content |-> <<>>, root |-> <<>>, out |-> <<>>]
    /\ czTrace = <<>>
    /\ faults = MaxFaults
    /\ HarnessIdle
    /\ BatchIdle

NextColorize ==
    \/ CzRead
    \/ CzParse
    \/ CzParseErrorRegex
    \/ CzEdit
    \/ CzEmptyRegex
    \/ CzSerialize
    \/ CzWrite
    \/ CzFallbackRead
    \/ CzFallbackWrite
    \/ CzFallbackError

SpecColorize == InitColorize /\ [][NextColorize]_vars

(***************************************************************************)
(* Claims about colorize_svg                                               *)
(***************************************************************************)
\* no read or write of the run raised: the outer handler was never entered
CzNoIOFailure == \A k \in 1..Len(czTrace) : czTrace[k] # "fallback_read"

CzReturned == czPc = "done"

\* the lookup for a tag matches the element at k of the original artifact:
\* a descendant of the root with that tag, namespaced if any descendant with
\* that tag is namespaced and bare otherwise
C4_Matched(k, tag) ==
    LET e == czOrig.elems
        anyNamespaced == \E j \in 2..Len(e) : e[j].tag = tag /\ e[j].ns
    IN k >= 2 /\ e[k].tag = tag /\ (e[k].ns <=> anyNamespaced)

C4_Found ==
    \E k \in 1..Len(czOrig.elems) : C4_Matched(k, "rect") \/ C4_Matched(k, "path")

C4_Expected(k) ==
    IF C4_Matched(k, "rect")
    THEN (IF \E j \in 1..(k - 1) : C4_Matched(j, "rect")
          THEN <<czIn.color>> ELSE <<czIn.background_color>>)
    ELSE IF C4_Matched(k, "path") THEN <<czIn.color>>
    ELSE czOrig.elems[k].fill

C4_Edited(elems) ==
    /\ Len(elems) = Len(czOrig.elems)
    /\ \A k \in 1..Len(elems) :
          /\ elems[k].tag = czOrig.elems[k].tag
          /\ elems[k].ns = czOrig.elems[k].ns
          /\ elems[k].fill = C4_Expected(k)

\* C4: for a well-formed artifact with at least one matched rect or path,
\* the tree colorize_svg serializes, and the file it leaves when no file
\* operation fails, has the background colour on the first matched rect, the
\* foreground colour on every later matched rect and on every matched path
\* (namespaced matches when there are any, bare ones otherwise), and every
\* other element's fill as it was.
C4_StructuredEdit ==
    (czOrig # <<>> /\ czOrig.wf /\ C4_Found /\ CzNoIOFailure) =>
        /\ czPc \in {"serialize", "write"} => C4_Edited(czMem.root)
        /\ CzReturned => C4_Edited(czFile.elems) /\ czFile.wf

\* C4 witness: two bare rects after a namespaced group with a fill; the first
\* rect ends with the background colour, the second with the foreground one,
\* the group keeps its fill.
C4_Witness ==
    /\ CzReturned /\ CzNoIOFailure /\ czOrig.wf
    /\ Len(czOrig.elems) = 3
    /\ czOrig.elems[2] = [tag |-> "rect", ns |-> FALSE, fill |-> <<Black>>]
    /\ czOrig.elems[3] = [tag |-> "rect", ns |-> FALSE, fill |-> <<>>]
    /\ czFile.elems[2].fill = <<White>>
    /\ czFile.elems[3].fill = <<Magenta>>

C5_NonEmptyFills ==
    {k \in 1..Len(czOrig.elems) :
        czOrig.elems[k].fill # <<>> /\ czOrig.elems[k].fill[1] # <<>>}

C6_FailedFallbackLeavesFile ==
    (CzReturned /\ \E k \in 1..Len(czTrace) : czTrace[k] = "fallback_error") =>
        czFile = czOrig

(***************************************************************************)
(* The batch engine with its entry points                                  *)
(***************************************************************************)
UiValidUses == {<<"1", "5">>, <<"0">>}
UiDates == {<<"2", "6", ".", "1", "2", ".", "3", "1">>, <<"3", "2", ".", "1", "2", ".", "3", "1">>, <<>>}
UiColors == {<<"#", "0", "0", "0", "0", "0", "0">>, <<"#", "G", "G", "G">>}
UiCounts == {<<"2">>, <<"0">>, <<"x">>}
UiVersions == {<<"a", "u", "t", "o">>, <<"5">>}
UiDirs == {<<"o", "u", "t">>, <<>>}

\* what the user typed into a manual form or stored in a manual preset
ManualInputs ==
    [valid_uses : UiValidUses, volume : {<<"5", "0", "0">>}, end_date : UiDates,
     color : UiColors, count : UiCounts, qr_version : UiVersions,
     output_directory : UiDirs, security_code : {<<"S", "E", "C", "D">>}, suffix_code : {<<"E", "E">>},
     format : {Png}, confirm : BOOLEAN]

Rows == {<<>>, <<<<"h">>>>, <<<<"a">>>>, <<<<"a", "/">>>>, <<<<"a">>, <<" ", "b">>>>}
Tables(n) == UNION {[1..k -> Rows] : k \in 0..n}

\* arguments of direct calls in Sequential mode
DirectSequential ==
    {[BaseArgs EXCEPT !.valid_uses = vu, !.volume = <<"5", "0", "0">>, !.end_date = <<"2", "6", ".", "1", "2", ".", "3", "1">>,
                      !.security_code = sc, !.suffix_code = sf, !.count = n,
                      !.use_payload_as_filename = up] :
        vu \in {<<"1", "5">>, <<"3">>}, sc \in {<<>>, <<"S", "E", "C", "D">>}, sf \in {<<>>, <<"E", "E">>},
        n \in 1..MaxCount, up \in BOOLEAN}
    \cup
    {[BaseArgs EXCEPT !.valid_uses = <<"1", "5">>, !.volume = <<"5", "0", "0">>, !.end_date = <<"2", "6", ".", "1", "2", ".", "3", "1">>,
                      !.count = n, !.format = Svg, !.color = <<"#", "F", "F", "0", "0", "F", "F">>,
                      !.filename_prefix = <<"P">>] :
        n \in 1..MaxSvgItems}

\* arguments of direct calls in Tabular mode
DirectTabular ==
    {[BaseArgs EXCEPT !.csv_mode = TRUE, !.csv_data = t, !.input_column = c,
                      !.use_payload_as_filename = up] :
        t \in Tables(MaxRows), c \in {0, 1}, up \in BOOLEAN}
    \cup
    {[BaseArgs EXCEPT !.csv_mode = TRUE, !.csv_data = t, !.input_column = c,
                      !.format = Svg, !.color = <<"#", "F", "F", "0", "0", "F", "F">>] :
        t \in Tables(MaxSvgItems), c \in {0, 1}}

\* what the user chose in the CSV dialogs
CsvInputs ==
    [table : Tables(MaxRows), input_column : {0, 1}, skip_first_row : BOOLEAN,
     format : {Png}, color : {<<"#", "0", "0", "0", "0", "0", "0">>}]

\* a caller of create_qr_codes is about to validate its input
InitBatch ==
    /\ pc = "entry"
    /\ \/ entry = "direct" /\ ui \in DirectSequential \cup DirectTabular
       \/ entry \in {"gui_manual", "ManualModeHandler", "main_legacy_manual"}
          /\ ui \in {u \in ManualInputs : u.confirm}
       \/ entry = "main_legacy_preset" /\ ui \in ManualInputs
       \/ entry = "main_legacy_csv" /\ ui \in CsvInputs
       \/ entry = "CSVModeHandler" /\ ui \in {u \in CsvInputs : ~u.skip_first_row}
    /\ args = <<>> /\ i = 0 /\ cur = <<>> /\ encoded = <<>>
    /\ dirMade = FALSE /\ files = <<>> /\ writes = <<>> /\ reported = <<>>
    /\ level = <<>> /\ cqTrace = <<>>
    /\ czPc = "idle" /\ czIn = <<>> /\ czFile = <<>> /\ czOrig = <<>>
    /\ czMem = <<>> /\ czTrace = <<>>

\* colorize_svg is called on a file that is already there
InitColorizeCall ==
    /\ pc = "idle" /\ entry = "colorize_svg" /\ ui = <<>>
    /\ args = <<>> /\ i = 0 /\ cur = <<>> /\ encoded = <<>>
    /\ dirMade = FALSE /\ files = <<>> /\ writes = <<>> /\ reported = <<>>
    /\ level = <<>> /\ cqTrace = <<>>
    /\ czPc = "read"
    /\ czIn \in [color : {Magenta}, background_color : {White},
                 svg_precision : {2, 10}]
    /\ czFile \in {a \in CzArtifacts : Len(a.elems) <= 2}
    /\ czOrig = czFile
    /\ czMem = [svg_content |-> <<>>, root |-> <<>>, out |-> <<>>]
    /\ czTrace = <<>>

Init ==
    /\ InitBatch \/ InitColorizeCall
    /\ faults \in 0..MaxFaults
    /\ HarnessIdle

Next ==
    \/ EntryDirect
    \/ EntryGuiManual
    \/ EntryManualModeHandler
    \/ EntryMainLegacyManual
    \/ EntryMainLegacyPreset
    \/ EntryMainLegacyCsv
    \/ EntryCSVModeHandler
    \/ CompleteMainLegacyCsv
    \/ CompleteCSVModeHandler
    \/ CompleteManualModeHandler
    \/ CompleteGuiManual
    \/ CqStart
    \/ CqSkipRow
    \/ CqRender
    \/ CqName
    \/ CqSave
    \/ CqColorizeCall
    \/ CqColorizeReturn
    \/ CqReturn
    \/ CzRead
    \/ CzParse
    \/ CzParseErrorRegex
    \/ CzEdit
    \/ CzEmptyRegex
    \/ CzSerialize
    \/ CzWrite
    \/ CzFallbackRead
    \/ CzFallbackWrite
    \/ CzFallbackError

Spec == Init /\ [][Next]_vars

(***************************************************************************)
(* Claims about create_qr_codes and its callers                            *)
(***************************************************************************)
\* create_qr_codes has been invoked
BatchStarted == pc \notin {"entry", "rejected", "failed", "idle"}

\* the text "M-{valid_uses}-{k as 8 decimal digits}-{volume}-{end_date}-
\* {security_code}-{suffix_code}", digit j of the serial being
\* (k div 10^(8-j)) mod 10
C1_Expected(a, k) ==
    <<"M", "-">> \o a.valid_uses \o <<"-">>
    \o [j \in 1..8 |-> DigitChars[((k \div (10 ^ (8 - j))) % 10) + 1]]
    \o <<"-">> \o a.volume \o <<"-">> \o a.end_date
    \o <<"-">> \o a.security_code \o <<"-">> \o a.suffix_code

\* C1: in Sequential mode with count = N >= 1 the payloads handed to the
\* encoder are, in order, those of the indexes 1, 2, ...: the k-th is
\* "M-{valid_uses}-{k zero-padded to 8 digits}-{volume}-{end_date}-
\* {security_code}-{suffix_code}", and when create_qr_codes returns there are
\* exactly N of them
C1_SequentialPayloads ==
    (BatchStarted /\ ~args.csv_mode /\ args.count >= 1) =>
        /\ Len(encoded) <= args.count
        /\ \A k \in 1..Len(encoded) : encoded[k] = C1_Expected(args, k)
        /\ pc = "returned" => Len(encoded) = args.count

\* a Sequential run of MaxCount items with empty codes has returned
C1_Witness ==
    /\ pc = "returned" /\ ~args.csv_mode
    /\ args.count = MaxCount /\ Len(encoded) = MaxCount
    /\ args.security_code = <<>> /\ args.suffix_code = <<>>

\* the cells c of the rows that have at least c + 1 cells, in file order
C2_Cells(rows, c) ==
    LET kept == SelectSeq(rows, LAMBDA row : Len(row) >= c + 1)
    IN [k \in 1..Len(kept) |-> kept[k][c + 1]]

\* C2: in Tabular mode, whenever the loop is between two rows or has ended,
\* the payloads rendered so far are the cells c, unmodified and in file
\* order, of the rows seen so far that have at least c + 1 cells, one file
\* was written per rendered row, and the function returns only after the
\* last row
C2_ShortRowsSkipped ==
    (pc \in {"loop", "returned"} /\ args.csv_mode) =>
        /\ encoded = C2_Cells(SubSeq(args.csv_data, 1, i), args.input_column)
        /\ Len(writes) = Len(encoded)
        /\ pc = "returned" => i = Len(args.csv_data)

\* a Tabular run has returned whose table has a short row followed by a row
\* with the column
C2_Witness ==
    /\ pc = "returned" /\ args.csv_mode
    /\ \E k \in 1..(Len(args.csv_data) - 1) :
          /\ Len(args.csv_data[k]) <= args.input_column
          /\ Len(args.csv_data[k + 1]) > args.input_column
    /\ encoded # <<>>

\* the entry point treats the first row of the table as a header
C3_HeaderEntry ==
    \/ entry = "CSVModeHandler"
    \/ entry = "main_legacy_csv" /\ ui.skip_first_row

\* C3: when the first row is treated as a header and every row of the table
\* has the column, a run that returns has rendered exactly the cells of the
\* rows after the first, for main_legacy with skip_first_row and for
\* CSVModeHandler.execute_generation
C3_HeaderExcluded ==
    (pc = "returned" /\ C3_HeaderEntry
        /\ \A k \in 1..Len(ui.table) : Len(ui.table[k]) > ui.input_column) =>
        encoded = C2_Cells(Tail(ui.table), ui.input_column)

\* the entry points that take the fields of a Sequential run from the user
ManualEntries ==
    {"gui_manual", "ManualModeHandler", "main_legacy_manual", "main_legacy_preset"}

\* every field the user supplied is inside its validator's domain
C9_FieldsValid(u) ==
    /\ ValidateIntegerInput(u.valid_uses, 1, <<>>).ok
    /\ ValidateIntegerInput(u.volume, 1, <<>>).ok
    /\ ValidateIntegerInput(u.count, 1, <<>>).ok
    /\ ValidateDateFormat(u.end_date).ok
    /\ ValidateColorFormat(u.color).ok
    /\ ValidateFormat(u.format).ok

\* C9: in every generation entry point, if a user-supplied field is outside
\* its validator's domain, create_qr_codes is never invoked and no directory
\* or artifact is written
C9_InvalidNeverStarts ==
    (entry \in ManualEntries /\ ~C9_FieldsValid(ui)) =>
        (~BatchStarted /\ ~dirMade /\ files = <<>>)

\* C10: a render step in which the encoder raises leaves create_qr_codes with
\* the exception, the files and the list of writes as they were; after that
\* nothing is rendered or written, and what is on disk is one file per item
\* rendered before the failing one
C10_EncoderFailureAborts ==
    /\ [][(pc = "loop" /\ cur' # cur /\ encoded' = encoded) =>
            (pc' = "raised" /\ files' = files /\ writes' = writes)]_vars
    /\ [][pc = "raised" => UNCHANGED <<pc, i, encoded, files, writes>>]_vars
    /\ [](pc = "raised" => (Len(writes) = Len(encoded) /\ cur.index = i + 1))

\* the encoder raised on an item that has written items before it and items
\* after it
C10_Witness ==
    /\ pc = "raised"
    /\ Len(writes) >= 1
    /\ i + 1 < Total(args)

(***************************************************************************)
(* Harness for the validators                                              *)
(***************************************************************************)
MaxColorLen == 4   \* longest colour text drawn exhaustively

DateDays == {<<"0", "0">>, <<"0", "1">>, <<"2", "8">>, <<"2", "9">>, <<"3", "0">>, <<"3", "1">>, <<"3", "2">>, <<"1", "a">>}
DateMonths == {<<"0", "0">>, <<"0", "1">>, <<"0", "2">>, <<"0", "4">>, <<"1", "2">>, <<"1", "3">>}
DateYears == {<<"0", "0">>, <<"0", "1">>, <<"0", "4">>, <<"2", "3">>, <<"9", "9">>}
DateSeps == {".", "-"}
DateHeads == {<<>>, <<" ">>}
DateTails == {<<>>, <<"\n">>, <<" ">>, <<"1">>}

\* texts around the DD.MM.YY pattern, and a few that are far from it
DateTexts ==
    {h \o dd \o <<s>> \o mm \o <<s>> \o yy \o t :
        h \in DateHeads, dd \in DateDays, s \in DateSeps, mm \in DateMonths,
        yy \in DateYears, t \in DateTails}
    \cup {<<"2", "6", ".", "1", "2">>, <<"2", "6", ".", "1", "2", ".", "2", "0", "3", "1">>, <<"2", "6", "1", "2", "3", "1">>, <<".", ".">>, <<"2", ".", "1", "2", ".", "3", "1">>}

ColorAlphabet == {"#", "f", "A", "0", "g", "x", "+", "_", " "}
ColorSamples == {<<"#", "f", "f", "f", "f", "f", "f">>, <<"#", "F", "F", "F", "F", "F", "G">>, <<"#", "0", "x", "1", "2", "3", "4">>, <<"#", "f", "f", "f", "f", "f">>, <<"#", "f", "f", "f", "f", "f", "f", "f">>, <<"#", "+", "f", "f", "f", "f", "f">>, <<"#", "1", "2", "_", "4", "5", "6">>, <<"R", "e", "d">>, <<"R", "E", "D">>, <<"r", "e", "d", "d", "i", "s", "h">>, <<"G", "o", "l", "d">>, <<"#", "0", "0", "F", "F", "0", "0">>}
ColorTexts == TextsUpTo(ColorAlphabet, MaxColorLen) \cup ColorSamples \cup CssColors

SettingTexts == {<<>>, <<"a", "u", "t", "o">>, <<"A", "U", "T", "O">>, <<"5">>, <<"4", "1">>, <<"0">>, <<"x">>, <<"L">>, <<"m">>, <<"z">>, <<"p", "n", "g">>, <<"S", "V", "G">>, <<"g", "i", "f">>, <<"8", "5">>, <<"1", "0", "1">>, <<"-", "1">>, <<" ", "7", " ">>, <<"1", "0">>, <<"1", "1">>, <<"1", "_", "0">>}
IntArgs == {IntArg(n) : n \in {0 - 1, 0, 1, 10, 11, 40, 41, 85, 100, 101}}

ValidatorCalls ==
    [op : {"validate_date_format"},
     arg : {StrArg(s) : s \in DateTexts \cup SettingTexts} \cup IntArgs]
    \cup [op : {"validate_color_format"},
          arg : {StrArg(s) : s \in ColorTexts \cup SettingTexts} \cup IntArgs]
    \cup [op : {"validate_format", "validate_qr_version", "validate_error_correction",
                "validate_png_quality", "validate_svg_precision"},
          arg : {StrArg(s) : s \in SettingTexts} \cup IntArgs]
    \cup [op : {"validate_integer_input"},
          arg : {StrArg(s) : s \in SettingTexts} \cup IntArgs,
          min_value : {0, 1}, max_value : {<<>>, <<40>>}]

\* the validator a call names, applied to its argument
ApplyValidator(c) ==
    CASE c.op = "validate_integer_input" ->
            CallValidateIntegerInput(c.arg, c.min_value, c.max_value)
      [] c.op = "validate_date_format" -> CallValidateDateFormat(c.arg)
      [] c.op = "validate_color_format" -> CallValidateColorFormat(c.arg)
      [] c.op = "validate_format" -> CallValidateFormat(c.arg)
      [] c.op = "validate_qr_version" -> CallValidateQrVersion(c.arg)
      [] c.op = "validate_error_correction" -> CallValidateErrorCorrection(c.arg)
      [] c.op = "validate_png_quality" -> CallValidatePngQuality(c.arg)
      [] c.op = "validate_svg_precision" -> CallValidateSvgPrecision(c.arg)

InitValidators ==
    /\ call \in ValidatorCalls
    /\ ret = <<>> /\ log = <<>> /\ disk = <<>>
    /\ BatchIdle
    /\ ColorizeIdle

CallValidator ==
    /\ call \in ValidatorCalls
    /\ ret = <<>>
    /\ ret' = <<ApplyValidator(call)>>
    /\ UNCHANGED <<call, log, disk, batchVars, czVars>>

NextValidators == CallValidator

SpecValidators == InitValidators /\ [][NextValidators]_vars

(***************************************************************************)
(* Claims about the validators                                             *)
(***************************************************************************)
\* a validator was called and the call has ended
ValidatorEnded(op) == call.op = op /\ ret # <<>>

\* C12: for every argument that is a string or an integer, each validator
\* returns (True, value) or (False, reason) with a reason that is not empty,
\* and never raises
C12_ValidatorsNeverRaise ==
    (call \in ValidatorCalls /\ ret # <<>>) =>
        /\ ~ret[1].raised
        /\ ret[1].result.ok \in BOOLEAN
        /\ ~ret[1].result.ok => ret[1].result.why # ""

\* the decimal value of a digit character
C13_Digit(c) == CHOOSE d \in 0..9 : DigitChars[d + 1] = c

\* s is two digits, ".", two digits, ".", two digits
C13_WellFormed(s) ==
    /\ Len(s) = 8
    /\ \A k \in {1, 2, 4, 5, 7, 8} : \E d \in 0..9 : DigitChars[d + 1] = s[k]
    /\ s[3] = "." /\ s[6] = "."

\* (DD, MM, 2000 + YY) is a day of the calendar; between 2000 and 2099 the
\* leap years are those divisible by 4
C13_RealDate(s) ==
    LET dd == 10 * C13_Digit(s[1]) + C13_Digit(s[2])
        mm == 10 * C13_Digit(s[4]) + C13_Digit(s[5])
        yy == 10 * C13_Digit(s[7]) + C13_Digit(s[8])
        len == IF mm \in {1, 3, 5, 7, 8, 10, 12} THEN 31
               ELSE IF mm \in {4, 6, 9, 11} THEN 30
               ELSE IF mm = 2 THEN (IF yy % 4 = 0 THEN 29 ELSE 28)
               ELSE 0
    IN dd >= 1 /\ dd <= len

\* C13: validate_date_format(s) returns (True, s) exactly when s is two
\* digits, ".", two digits, ".", two digits and names a real calendar date
\* of the years 2000..2099; the empty string gets the empty-input failure,
\* another pattern mismatch the format failure, an impossible date the
\* invalid-date failure
C13_DateAcceptedExactly ==
    (ValidatorEnded("validate_date_format") /\ call.arg.t = "str") =>
        LET s == call.arg.v
            r == ret[1].result
        IN /\ ~ret[1].raised
           /\ r.ok <=> (C13_WellFormed(s) /\ C13_RealDate(s))
           /\ r.ok => r.val = s
           /\ s = <<>> => r.why = "Date cannot be empty"
           /\ (s # <<>> /\ ~C13_WellFormed(s)) =>
                 r.why = "Date must be in DD.MM.YY format (e.g., 26.12.31)"
           /\ (C13_WellFormed(s) /\ ~C13_RealDate(s)) =>
                 r.why = "Invalid date. Please check day, month values."

\* the characters 0-9, a-f and A-F
C14_HexDigits ==
    {DigitChars[k] : k \in 1..10} \cup {LowerChars[k] : k \in 1..6}
    \cup {UpperChars[k] : k \in 1..6}

\* s is "#" followed by exactly 3 or exactly 6 hexadecimal digits
C14_HexColor(s) ==
    /\ Len(s) \in {4, 7}
    /\ s[1] = "#"
    /\ \A k \in 2..Len(s) : s[k] \in C14_HexDigits

\* C14: validate_color_format accepts a string exactly when it is "#" and 3
\* or 6 hexadecimal digits or, ignoring case, one of the 22 colour names,
\* and returns it unchanged; failures are, in this order: empty input, "#"
\* with a length other than 4 or 7, "#" with a non-hex digit, unknown name
C14_ColorAcceptedExactly ==
    (ValidatorEnded("validate_color_format") /\ call.arg.t = "str") =>
        LET s == call.arg.v
            r == ret[1].result
        IN /\ ~ret[1].raised
           /\ r.ok <=> (s # <<>> /\ (C14_HexColor(s) \/ Lower(s) \in CssColors))
           /\ r.ok => r.val = s
           /\ s = <<>> => r.why = "Color cannot be empty"
           /\ (s # <<>> /\ s[1] = "#" /\ Len(s) \notin {4, 7}) =>
                 r.why = "Hex color must be #RGB or #RRGGBB format"
           /\ (s # <<>> /\ s[1] = "#" /\ Len(s) \in {4, 7} /\ ~C14_HexColor(s)) =>
                 r.why = "Invalid hex color format"
           /\ (s # <<>> /\ s[1] # "#" /\ Lower(s) \notin CssColors) =>
                 r.why = "Color must be hex format (#RGB or #RRGGBB) or CSS color name"

\* C11: at the end of a Tabular run the number reported as generated is the
\* number of payloads rendered, and the rows that are not counted as
\* generated are the rows lacking the target column, so that generated plus
\* skipped is the number of rows iterated
C11_CountsMatchRendered ==
    (pc = "completed" /\ args.csv_mode) =>
        LET generated == reported[Len(reported)].n
            skipped == Cardinality({k \in 1..Len(args.csv_data) :
                                       Len(args.csv_data[k]) <= args.input_column})
        IN /\ generated = Len(encoded)
           /\ generated + skipped = Len(args.csv_data)

(***************************************************************************)
(* Harness for zip_output_files and clean_output_folder                    *)
(***************************************************************************)
MaxOps == 2        \* most calls made in a row

PkDirs == {<<"o", "u", "t">>, <<"o", "u", "t", "/", "s", "u", "b">>, <<"o", "u", "t", "/", "s", "u", "b", "/", "d", "e", "e", "p">>, <<"o", "t", "h", "e", "r">>}
PkFiles == {<<"o", "u", "t", "/", "a", ".", "p", "n", "g">>, <<"o", "u", "t", "/", "b", ".", "s", "v", "g">>, <<"o", "u", "t", "/", "s", "u", "b", "/", "a", ".", "p", "n", "g">>, <<"o", "u", "t", "/", "s", "u", "b", "/", "d", "e", "e", "p", "/", "c", ".", "p", "n", "g">>, <<"o", "t", "h", "e", "r", "/", "a", ".", "p", "n", "g">>, <<"o", "u", "t", ".", "p", "n", "g">>}
PkFolders == {<<"o", "u", "t">>, <<"n", "o", "w", "h", "e", "r", "e">>}
PkZipNames == {<<"a", "l", "l", ".", "z", "i", "p">>, <<"o", "u", "t", "/", "a", "l", "l", ".", "p", "n", "g">>, <<"o", "u", "t", "/", "s", "u", "b", "/", "a", ".", "p", "n", "g">>, <<"m", "i", "s", "s", "i", "n", "g", "/", "x", ".", "z", "i", "p">>}

\* a file system with the directories and some of the files
PkDisks ==
    {[p \in PkDirs \cup present |->
         IF p \in PkDirs THEN [kind |-> "dir"] ELSE [kind |-> "file", entries |-> {}]] :
        present \in SUBSET PkFiles}

InitPackager ==
    /\ call = NoCall /\ ret = <<>> /\ log = <<>>
    /\ disk \in PkDisks
    /\ BatchIdle
    /\ ColorizeIdle

\* a call is logged with its outcome and the file system it found
Logged(c, out) == [call |-> c, out |-> out, before |-> disk]

CallZipOutputFiles ==
    /\ disk # <<>> /\ Len(log) < MaxOps
    /\ \E output_folder \in PkFolders, zip_file_name \in PkZipNames, format \in {Png, Svg} :
          /\ output_folder = <<"n", "o", "w", "h", "e", "r", "e">> => (zip_file_name = <<"a", "l", "l", ".", "z", "i", "p">> /\ format = Png)
          /\ \E z \in ZipOutputFiles(disk, output_folder, zip_file_name, format) :
                /\ disk' = z.fs
                /\ call' = [op |-> "zip_output_files", output_folder |-> output_folder,
                            zip_file_name |-> zip_file_name, format |-> format]
                /\ ret' = <<z.out>>
                /\ log' = Append(log, Logged(call', z.out))
    /\ UNCHANGED <<batchVars, czVars>>

CallCleanOutputFolder ==
    /\ disk # <<>> /\ Len(log) < MaxOps
    /\ \E output_folder \in PkFolders :
          LET c == CleanOutputFolder(disk, output_folder)
          IN /\ disk' = c.fs
             /\ call' = [op |-> "clean_output_folder", output_folder |-> output_folder]
             /\ ret' = <<c.out>>
             /\ log' = Append(log, Logged(call', c.out))
    /\ UNCHANGED <<batchVars, czVars>>

NextPackager == CallZipOutputFiles \/ CallCleanOutputFolder

SpecPackager == InitPackager /\ [][NextPackager]_vars

(***************************************************************************)
(* Claims about zip_output_files and clean_output_folder                   *)
(***************************************************************************)
\* p lies at some depth under the folder
PkUnder(folder, p) ==
    \E k \in 1..(Len(p) - 1) : SubSeq(p, 1, k) = folder \o <<"/">>

\* name is the part of p after its last "/"
PkNameOf(p, name) ==
    \E k \in 1..Len(p) :
        /\ p[k] = "/"
        /\ name = SubSeq(p, k + 1, Len(p))
        /\ \A j \in 1..Len(name) : name[j] # "/"

\* name ends with ".{format}"
PkHasExtension(name, format) ==
    /\ Len(name) >= Len(format) + 1
    /\ name[Len(name) - Len(format)] = "."
    /\ \A j \in 1..Len(format) : name[Len(name) - Len(format) + j] = format[j]

\* the last call was zip_output_files and it returned
ZipReturned == call.op = "zip_output_files" /\ ret # <<>> /\ ~ret[1].raised

\* C15: when zip_output_files returns, the archive holds exactly the regular
\* files at any depth under the output folder whose name ends with
\* ".{format}", each under its base name; so files with another extension
\* are not in it, and files with the same base name in different
\* directories have the same entry name
C15_ArchiveHoldsMatchingFiles ==
    ZipReturned =>
        LET entries == disk[call.zip_file_name].entries
            folder == call.output_folder
        IN /\ \A p \in DOMAIN disk :
                 (/\ disk[p].kind = "file"
                  /\ folder \in DOMAIN disk
                  /\ PkUnder(folder, p)
                  /\ \E name \in {SubSeq(p, k, Len(p)) : k \in 1..Len(p)} :
                        PkNameOf(p, name) /\ PkHasExtension(name, call.format))
                 <=> (\E e \in entries : e.source = p)
           /\ \A e \in entries : PkNameOf(e.source, e.arcname)

\* an archive outside the output folder holds two files of the same name
\* from different directories, and a file with another extension was left out
C15_Witness ==
    /\ ZipReturned
    /\ ~PkUnder(call.output_folder, call.zip_file_name)
    /\ \E e1, e2 \in disk[call.zip_file_name].entries :
          e1.arcname = e2.arcname /\ e1.source # e2.source
    /\ \E p \in DOMAIN disk :
          /\ disk[p].kind = "file" /\ PkUnder(call.output_folder, p)
          /\ \A e \in disk[call.zip_file_name].entries : e.source # p

\* C16: zip_output_files returns the path of the archive it wrote
C16_ZipReturnsArchivePath ==
    ZipReturned => ret[1].result = call.zip_file_name

\* the last call was clean_output_folder
CleanEnded == call.op = "clean_output_folder" /\ ret # <<>>

\* C17: clean_output_folder removes every regular file at any depth under
\* the folder, whatever its name, removes no directory and leaves every
\* path outside the folder as it was
C17_CleanRemovesFilesOnly ==
    CleanEnded =>
        LET before == log[Len(log)].before
            folder == call.output_folder
        IN /\ ~ret[1].raised
           /\ \A p \in DOMAIN before :
                 IF before[p].kind = "file" /\ folder \in DOMAIN before
                    /\ PkUnder(folder, p)
                 THEN p \notin DOMAIN disk
                 ELSE p \in DOMAIN disk /\ disk[p] = before[p]
           /\ DOMAIN disk \subseteq DOMAIN before

\* clean_output_folder ran on a folder holding a nested file and files of
\* two extensions, next to files outside the folder
C17_Witness ==
    /\ CleanEnded
    /\ LET before == log[Len(log)].before
       IN /\ <<"o", "u", "t", "/", "s", "u", "b", "/", "d", "e", "e", "p", "/", "c", ".", "p", "n", "g">> \in DOMAIN before
          /\ <<"o", "u", "t", "/", "b", ".", "s", "v", "g">> \in DOMAIN before
          /\ <<"o", "u", "t", "/", "a", ".", "p", "n", "g">> \in DOMAIN before
          /\ <<"o", "u", "t", ".", "p", "n", "g">> \in DOMAIN before
          /\ <<"o", "t", "h", "e", "r", "/", "a", ".", "p", "n", "g">> \in DOMAIN before
    /\ call.output_folder = <<"o", "u", "t">>

\* the file system after the k-th call of the log
PkAfter(k) == IF k = Len(log) THEN disk ELSE log[k + 1].before

\* C18: zip_output_files called twice in a row with the same arguments,
\* the archive path being one that can be opened for writing, returns both
\* times and leaves the archive with the same set of entries, wherever the
\* archive lies; clean_output_folder called twice in a row leaves the state
\* of the first call and does not fail
C18_ZipAndCleanIdempotent ==
    \A k \in 1..(Len(log) - 1) :
        log[k + 1].call = log[k].call =>
            IF log[k].call.op = "zip_output_files"
            THEN log[k].out # Raises("OSError") =>
                    /\ ~log[k].out.raised
                    /\ ~log[k + 1].out.raised
                    /\ PkAfter(k + 1)[log[k].call.zip_file_name].entries
                           = PkAfter(k)[log[k].call.zip_file_name].entries
            ELSE /\ ~log[k + 1].out.raised
                 /\ PkAfter(k + 1) = PkAfter(k)

(***************************************************************************)
(* Presets (src/src/preset_manager.py)                                     *)
(*                                                                         *)
(* A Python value is a record [type, repr, items]: a str or an int carries *)
(* its text in repr, a list or a tuple its elements in items, an object    *)
(* stands for a value json cannot encode. A dict is a sequence of          *)
(* [key, value] with distinct keys, in insertion order; two dicts are      *)
(* equal when they hold the same pairs. A JSON document is a record        *)
(* [complete, members]: the members written, and whether the text was      *)
(* written to its end.                                                     *)
(***************************************************************************)
StrValue(s) == [type |-> "str", repr |-> s, items |-> <<>>]
IntValue(s) == [type |-> "int", repr |-> s, items |-> <<>>]
ListValue(items) == [type |-> "list", repr |-> "", items |-> items]
TupleValue(items) == [type |-> "tuple", repr |-> "", items |-> items]
ObjectValue == [type |-> "object", repr |-> "", items |-> <<>>]

\* d1 == d2 for two dicts
DictEq(d1, d2) ==
    {d1[k] : k \in 1..Len(d1)} = {d2[k] : k \in 1..Len(d2)}

\* json.dump can encode the value
RECURSIVE Serialisable(_)
Serialisable(v) ==
    /\ v.type # "object"
    /\ \A k \in 1..Len(v.items) : Serialisable(v.items[k])

\* the JSON value json.dump writes for a value: a list and a tuple are both
\* written as an array
RECURSIVE JsonOf(_)
JsonOf(v) ==
    CASE v.type = "str" -> [json |-> "string", repr |-> v.repr, items |-> <<>>]
      [] v.type = "int" -> [json |-> "number", repr |-> v.repr, items |-> <<>>]
      [] v.type \in {"list", "tuple"} ->
            [json |-> "array", repr |-> "",
             items |-> [k \in 1..Len(v.items) |-> JsonOf(v.items[k])]]

\* the member name json.dump writes for a key: a str as it is, an int as
\* its decimal text
JsonKey(key) == key.repr

\* json.dump(parameters, f, indent=2): the members are written in order; a
\* value that cannot be encoded raises TypeError after the members before it
\* have been written
JsonDump(parameters) ==
    LET bad == {k \in 1..Len(parameters) : ~Serialisable(parameters[k].value)}
        upto == IF bad = {} THEN Len(parameters)
                ELSE (CHOOSE k \in bad : \A j \in bad : k <= j) - 1
    IN [complete |-> bad = {},
        members |-> [k \in 1..upto |->
                        [name |-> JsonKey(parameters[k].key),
                         value |-> JsonOf(parameters[k].value)]]]

\* mutant of LoadedType: an array is read as a tuple
LoadedTypeTuple(json) ==
    CASE json = "string" -> "str"
      [] json = "number" -> "int"
      [] json = "array" -> "tuple"

\* the Python type json.load gives a JSON value
LoadedType(json) ==
    CASE json = "string" -> "str"
      [] json = "number" -> "int"
      [] json = "array" -> "list"

\* the value json.load reads for a JSON value
RECURSIVE PyOf(_)
PyOf(j) ==
    [type |-> LoadedType(j.json), repr |-> j.repr,
     items |-> [k \in 1..Len(j.items) |-> PyOf(j.items[k])]]

\* the dict json.load builds from the members of an object: every name is
\* a str key, and of two members with one name the later one stays
RECURSIVE LoadMembers(_)
LoadMembers(members) ==
    IF members = <<>> THEN <<>>
    ELSE LET rest == LoadMembers(Tail(members))
             key == StrValue(Head(members).name)
         IN IF \E k \in 1..Len(rest) : rest[k].key = key
            THEN rest
            ELSE <<[key |-> key, value |-> PyOf(Head(members).value)]>> \o rest

\* json.load(f): a text that was not written to its end does not parse
JsonLoad(doc) ==
    IF doc.complete THEN Returns(LoadMembers(doc.members))
    ELSE Raises("JSONDecodeError")

PresetsDir == <<"p", "r", "e", "s", "e", "t", "s">>
DotJson == <<".", "j", "s", "o", "n">>

\* get_presets_dir: os.makedirs(presets_dir, exist_ok=True)
WithPresetsDir(fs) == WithNode(fs, PresetsDir, [kind |-> "dir"])

\* os.path.join(presets_dir, f"{preset_name}.json")
PresetFile(preset_name) ==
    IF StartsWith(preset_name, <<"/">>) THEN preset_name \o DotJson
    ELSE PresetsDir \o <<"/">> \o preset_name \o DotJson

\* the components of a path
RECURSIVE Components(_)
Components(path) ==
    IF Slashes(path) = {} THEN <<path>>
    ELSE LET k == CHOOSE s \in Slashes(path) : \A j \in Slashes(path) : s <= j
         IN <<SubSeq(path, 1, k - 1)>> \o Components(SubSeq(path, k + 1, Len(path)))

\* the node the operating system reaches by following the components from
\* the directory at: ".." leads to the parent, every component before the
\* last has to be a directory; [ok, path]
RECURSIVE Lookup(_, _, _)
Lookup(fs, at, components) ==
    IF ~IsDir(fs, at) THEN [ok |-> FALSE, path |-> at]
    ELSE IF components = <<>> THEN [ok |-> TRUE, path |-> at]
    ELSE LET next == IF Head(components) = <<".", ".">> THEN DirName(at)
                     ELSE IF at = <<>> THEN Head(components)
                     ELSE at \o <<"/">> \o Head(components)
         IN IF Len(components) = 1 THEN [ok |-> TRUE, path |-> next]
            ELSE Lookup(fs, next, Tail(components))

\* os.path.exists(preset_file)
PresetExists(fs, preset_name) ==
    LET target == Lookup(fs, <<>>, Components(PresetFile(preset_name)))
    IN target.ok /\ target.path \in DOMAIN fs

\* save_preset(preset_name, parameters): the outcomes [fs, out]. open(...,
\* 'w') creates or empties the file before json.dump writes; every
\* exception becomes (False, message)
SavePreset(fs, preset_name, parameters) ==
    LET made == WithPresetsDir(fs)
        target == Lookup(made, <<>>, Components(PresetFile(preset_name)))
        doc == JsonDump(parameters)
    IN IF ~target.ok \/ IsDir(made, target.path)
       THEN [fs |-> made, out |-> Returns(Invalid("Failed to save preset"))]
       ELSE [fs |-> WithNode(made, target.path, [kind |-> "file", text |-> doc]),
             out |-> IF doc.complete
                     THEN Returns([ok |-> TRUE, val |-> <<>>, why |-> "saved successfully"])
                     ELSE Returns(Invalid("Failed to save preset"))]

\* load_preset(preset_name)
LoadPreset(fs, preset_name) ==
    LET made == WithPresetsDir(fs)
        target == Lookup(made, <<>>, Components(PresetFile(preset_name)))
    IN [fs |-> made,
        out |-> IF ~PresetExists(made, preset_name)
                THEN Returns(Invalid("not found"))
                ELSE IF IsDir(made, target.path) \/ JsonLoad(made[target.path].text).raised
                THEN Returns(Invalid("Failed to load preset"))
                ELSE Returns(Valid(JsonLoad(made[target.path].text).result))]

\* os.path.splitext(f)[0]: the name up to its last dot, the dots the name
\* begins with not counting
SplitextRoot(f) ==
    LET dots == {k \in 1..Len(f) : f[k] = "."}
        leading == {k \in 1..Len(f) : \A j \in 1..k : f[j] = "."}
        last == CHOOSE k \in dots : \A j \in dots : j <= k
    IN IF dots = {} \/ last \in leading THEN f ELSE SubSeq(f, 1, last - 1)

\* os.listdir(presets_dir): the names directly in the directory
ListDir(fs, dir) ==
    {BaseName(p) : p \in {q \in DOMAIN fs : q # <<>> /\ DirName(q) = dir}}

\* list_presets(): the names, as a set
ListPresets(fs) ==
    LET made == WithPresetsDir(fs)
    IN [fs |-> made,
        out |-> Returns({SplitextRoot(f) :
                            f \in {g \in ListDir(made, PresetsDir) : EndsWith(g, DotJson)}})]

\* os.remove(preset_file)
AfterRemove(fs, path) == [p \in DOMAIN fs \ {path} |-> fs[p]]

\* delete_preset(preset_name)
DeletePreset(fs, preset_name) ==
    LET made == WithPresetsDir(fs)
        target == Lookup(made, <<>>, Components(PresetFile(preset_name)))
    IN IF ~PresetExists(made, preset_name)
       THEN [fs |-> made, out |-> Returns(Invalid("not found"))]
       ELSE IF IsDir(made, target.path)
       THEN [fs |-> made, out |-> Returns(Invalid("Failed to delete preset"))]
       ELSE [fs |-> AfterRemove(made, target.path),
             out |-> Returns([ok |-> TRUE, val |-> <<>>, why |-> "deleted successfully"])]

(***************************************************************************)
(* Harness for the presets                                                 *)
(***************************************************************************)
MaxPresetOps == 2        \* most save and delete calls made in a row

PresetNames == {<<"a">>, <<"b">>, <<"a", "/", "b">>, <<".", ".", "/", "x">>}
PresetKeys == {StrValue("k"), IntValue("1")}
PresetValues == {StrValue("v"), ListValue(<<IntValue("1")>>), TupleValue(<<IntValue("1")>>), ObjectValue}

\* the dicts saved: empty, or one key with one value
PresetDicts ==
    {<<>>} \cup {<<[key |-> k, value |-> v]>> :
                    <<k, v>> \in {kv \in PresetKeys \X PresetValues :
                                     kv[1] = StrValue("k") \/ kv[2] = StrValue("v")}}

\* the working directory holds an empty presets directory; the log is of
\* the calls that change the store, save_preset and delete_preset
InitPresets ==
    /\ call = NoCall /\ ret = <<>> /\ log = <<>>
    /\ disk = WithPresetsDir(<<>>)
    /\ BatchIdle
    /\ ColorizeIdle

CallSavePreset ==
    /\ PresetsDir \in DOMAIN disk /\ Len(log) < MaxPresetOps
    /\ \E preset_name \in PresetNames, parameters \in PresetDicts :
          LET s == SavePreset(disk, preset_name, parameters)
          IN /\ disk' = s.fs
             /\ call' = [op |-> "save_preset", preset_name |-> preset_name,
                         parameters |-> parameters]
             /\ ret' = <<s.out>>
             /\ log' = Append(log, Logged(call', s.out))
    /\ UNCHANGED <<batchVars, czVars>>

CallDeletePreset ==
    /\ PresetsDir \in DOMAIN disk /\ Len(log) < MaxPresetOps
    /\ \E preset_name \in PresetNames :
          LET d == DeletePreset(disk, preset_name)
          IN /\ disk' = d.fs
             /\ call' = [op |-> "delete_preset", preset_name |-> preset_name]
             /\ ret' = <<d.out>>
             /\ log' = Append(log, Logged(call', d.out))
    /\ UNCHANGED <<batchVars, czVars>>

CallLoadPreset ==
    /\ PresetsDir \in DOMAIN disk
    /\ \E preset_name \in PresetNames :
          LET l == LoadPreset(disk, preset_name)
          IN /\ disk' = l.fs
             /\ call' = [op |-> "load_preset", preset_name |-> preset_name]
             /\ ret' = <<l.out>>
    /\ UNCHANGED <<log, batchVars, czVars>>

CallListPresets ==
    /\ PresetsDir \in DOMAIN disk
    /\ LET l == ListPresets(disk)
       IN /\ disk' = l.fs
          /\ call' = [op |-> "list_presets"]
          /\ ret' = <<l.out>>
    /\ UNCHANGED <<log, batchVars, czVars>>

NextPresets == CallSavePreset \/ CallLoadPreset \/ CallListPresets \/ CallDeletePreset

SpecPresets == InitPresets /\ [][NextPresets]_vars

(***************************************************************************)
(* Claims about the presets                                                *)
(***************************************************************************)
\* load_preset has returned, and the last call that changed the store was a
\* save_preset under the same name
C19_LoadAfterSave ==
    /\ call.op = "load_preset" /\ ret # <<>>
    /\ log # <<>>
    /\ log[Len(log)].call.op = "save_preset"
    /\ log[Len(log)].call.preset_name = call.preset_name

\* the dict holds nothing json cannot encode
C19_Serialisable(p) ==
    \A k \in 1..Len(p) :
        /\ p[k].value.type # "object"
        /\ \A j \in 1..Len(p[k].value.items) : p[k].value.items[j].type # "object"

\* the keys are strings, the values strings, integers or lists of these
C19_Native(p) ==
    \A k \in 1..Len(p) :
        /\ p[k].key.type = "str"
        /\ p[k].value.type \in {"str", "int", "list"}
        /\ \A j \in 1..Len(p[k].value.items) : p[k].value.items[j].type \in {"str", "int"}

\* load_preset returned (True, p)
C19_Loaded(p) ==
    /\ ~ret[1].raised
    /\ ret[1].result.ok
    /\ {ret[1].result.val[k] : k \in 1..Len(ret[1].result.val)} = {p[k] : k \in 1..Len(p)}

C20_Kept(l) ==
    {n \in {l[k].call.preset_name : k \in 1..Len(l)} :
        \E k \in 1..Len(l) :
            /\ l[k].call.op = "save_preset"
            /\ l[k].call.preset_name = n
            /\ l[k].out.result.ok
            /\ \A j \in (k + 1)..Len(l) :
                  ~(/\ l[j].call.op = "delete_preset"
                    /\ l[j].call.preset_name = n
                    /\ l[j].out.result.ok)}

\* what C20 says of one call
C20_Step ==
    /\ call'.op = "list_presets" => ret'[1].result = C20_Kept(log)
    /\ (call'.op \in {"load_preset", "delete_preset"}
        /\ call'.preset_name \notin C20_Kept(log))
          => /\ ~ret'[1].result.ok
             /\ ret'[1].result.why = "not found"
             /\ disk' = disk
    /\ (call'.op = "delete_preset" /\ call'.preset_name \in C20_Kept(log))
          => /\ ret'[1].result.ok
             /\ \E p \in DOMAIN disk :
                   /\ DOMAIN disk' = DOMAIN disk \ {p}
                   /\ \A q \in DOMAIN disk' : disk'[q] = disk[q]

\* C20: after any sequence of save_preset and delete_preset from an empty
\* presets directory, list_presets returns exactly the names saved and not
\* deleted since; load_preset and delete_preset on another name return
\* (False, "... not found") and leave the store as it was; delete_preset on
\* a present name succeeds and removes only that name
C20_ListIsSavedNotDeleted == [][C20_Step]_vars

(***************************************************************************)
(* main_legacy applying a loaded preset (src/qr_generator.py)              *)
(*                                                                         *)
(* The loaded preset is a function from the keys it holds to their values, *)
(* every value written as its text.                                        *)
(***************************************************************************)
\* loaded_preset.get(key, default)
PresetGet(loaded_preset, key, default) ==
    IF key \in DOMAIN loaded_preset THEN loaded_preset[key] ELSE default

\* the values main_legacy takes from a loaded preset, csv_mode being the
\* user's answer to the batch method question. `if loaded_preset` is false
\* for an empty dict; loaded_preset["mode"] raises KeyError without the key,
\* outside every try; a preset of the other mode is not used and the values
\* are asked for
ApplyLoadedPreset(loaded_preset, csv_mode) ==
    IF DOMAIN loaded_preset = {} THEN Returns([branch |-> "prompts"])
    ELSE IF "mode" \notin DOMAIN loaded_preset THEN Raises("KeyError")
    ELSE IF loaded_preset["mode"] = "csv" /\ csv_mode
    THEN Returns([branch |-> "csv",
                  delimiter |-> PresetGet(loaded_preset, "delimiter", ","),
                  input_column |-> PresetGet(loaded_preset, "input_column", "0"),
                  skip_first_row |-> PresetGet(loaded_preset, "skip_first_row", "False"),
                  format |-> PresetGet(loaded_preset, "format", "png"),
                  color |-> PresetGet(loaded_preset, "color", "#000000")])
    ELSE IF loaded_preset["mode"] = "manual"
    THEN Returns([branch |-> "manual",
                  valid_uses |-> PresetGet(loaded_preset, "valid_uses", "15"),
                  volume |-> PresetGet(loaded_preset, "volume", "500"),
                  end_date |-> PresetGet(loaded_preset, "end_date", "26.12.31"),
                  color |-> PresetGet(loaded_preset, "color", "#000000"),
                  format |-> PresetGet(loaded_preset, "format", "png"),
                  security_code |-> PresetGet(loaded_preset, "security_code", "SECD"),
                  suffix_code |-> PresetGet(loaded_preset, "suffix_code", "23FF45EE")])
    ELSE Returns([branch |-> "prompts"])

\* the value stored under each key other than the mode, none a default
StoredValues ==
    [delimiter |-> ";", input_column |-> "2", skip_first_row |-> "True",
     format |-> "svg", color |-> "red", valid_uses |-> "7", volume |-> "250"]

\* the presets drawn: any of the keys, each with its stored value
LoadedPresets ==
    {[k \in keys |-> IF k = "mode" THEN mode ELSE StoredValues[k]] :
        keys \in SUBSET (DOMAIN StoredValues \cup {"mode"}),
        mode \in {"csv", "manual", "other"}}

InitApplyPreset ==
    /\ call \in {[op |-> "apply_preset", loaded_preset |-> p, csv_mode |-> c] :
                    p \in LoadedPresets, c \in BOOLEAN}
    /\ ret = <<>> /\ log = <<>> /\ disk = <<>>
    /\ BatchIdle
    /\ ColorizeIdle

CallApplyLoadedPreset ==
    /\ call.op = "apply_preset"
    /\ ret = <<>>
    /\ ret' = <<ApplyLoadedPreset(call.loaded_preset, call.csv_mode)>>
    /\ UNCHANGED <<call, log, disk, batchVars, czVars>>

NextApplyPreset == CallApplyLoadedPreset

SpecApplyPreset == InitApplyPreset /\ [][NextApplyPreset]_vars

\* the documented default of each field
C21_Defaults ==
    [delimiter |-> ",", input_column |-> "0", skip_first_row |-> "False",
     format |-> "png", color |-> "#000000", valid_uses |-> "15", volume |-> "500"]

\* C21: applying a loaded preset with any key missing does not fail, and
\* every field of the values taken whose key is missing has its default
C21_MissingKeysTakeDefaults ==
    (call.op = "apply_preset" /\ ret # <<>>) =>
        /\ ~ret[1].raised
        /\ \A f \in DOMAIN C21_Defaults :
              (f \in DOMAIN ret[1].result /\ f \notin DOMAIN call.loaded_preset)
                  => ret[1].result[f] = C21_Defaults[f]

(***************************************************************************)
(* create_qr_codes called directly, with encoder settings and a progress   *)
(* callback                                                                *)
(***************************************************************************)
\* encoder settings of the calls: (qr_version, error_correction, box_size,
\* border), the defaults and others
DirectSetups ==
    {<<<<>>, "L", 10, 4>>, <<<<5>>, "h", 3, 1>>, <<<<40>>, "X", 1, 0>>}

\* arguments of the calls: Sequential runs, Tabular runs over rows with
\* equal cells, cells that differ in stripped characters and short rows,
\* and runs in the vector format
DirectConfigured ==
    {[BaseArgs EXCEPT !.valid_uses = <<"1", "5">>, !.volume = <<"5", "0", "0">>, !.end_date = <<"2", "6", ".", "1", "2", ".", "3", "1">>,
                      !.count = n, !.qr_version = c[1], !.error_correction = c[2],
                      !.box_size = c[3], !.border = c[4], !.progress_callback = cb] :
        n \in {0, 1, 3}, c \in DirectSetups, cb \in BOOLEAN}
    \cup
    {[BaseArgs EXCEPT !.csv_mode = TRUE, !.csv_data = t,
                      !.qr_version = c[1], !.error_correction = c[2],
                      !.box_size = c[3], !.border = c[4],
                      !.use_payload_as_filename = up, !.progress_callback = TRUE] :
        t \in Tables(MaxSvgItems), c \in DirectSetups \ {<<<<>>, "L", 10, 4>>},
        up \in BOOLEAN}
    \cup
    {[BaseArgs EXCEPT !.csv_mode = TRUE, !.csv_data = t, !.format = Svg,
                      !.color = <<"#", "F", "F", "0", "0", "F", "F">>, !.progress_callback = cb] :
        t \in {u \in Tables(MaxSvgItems) : \A k \in 1..Len(u) : u[k] # <<>>},
        cb \in BOOLEAN}

InitRun ==
    /\ pc = "entry" /\ entry = "direct" /\ ui \in DirectConfigured
    /\ args = <<>> /\ i = 0 /\ cur = <<>> /\ encoded = <<>>
    /\ dirMade = FALSE /\ files = <<>> /\ writes = <<>> /\ reported = <<>>
    /\ level = <<>> /\ cqTrace = <<>>
    /\ czPc = "idle" /\ czIn = <<>> /\ czFile = <<>> /\ czOrig = <<>>
    /\ czMem = <<>> /\ czTrace = <<>>
    /\ faults \in 0..MaxFaults
    /\ HarnessIdle

\* the encoder writes a well-formed artifact with rect elements, so of
\* colorize_svg's steps the two substitutions for an artifact that does not
\* parse or has no element to edit are never taken in a run
NextRun ==
    \/ EntryDirect
    \/ CqStart
    \/ CqSkipRow
    \/ CqRender
    \/ CqName
    \/ CqSave
    \/ CqColorizeCall
    \/ CqColorizeReturn
    \/ CqReturn
    \/ CzRead
    \/ CzParse
    \/ CzEdit
    \/ CzSerialize
    \/ CzWrite
    \/ CzFallbackRead
    \/ CzFallbackWrite
    \/ CzFallbackError

SpecRun == InitRun /\ [][NextRun]_vars

\* the interpreter runs the call on: a step that can be taken is taken
SpecRunFair == SpecRun /\ WF_vars(NextRun)

(***************************************************************************)
(* Claims about the run of create_qr_codes                                 *)
(***************************************************************************)

\* the calls of the trace with the given name, in order
CqEvents(op) == SelectSeq(cqTrace, LAMBDA e : e.op = op)

\* the level a valid level string stands for
C22_LevelOf(level_str) ==
    CASE level_str \in {"L", "l"} -> "ERROR_CORRECT_L"
      [] level_str \in {"M", "m"} -> "ERROR_CORRECT_M"
      [] level_str \in {"Q", "q"} -> "ERROR_CORRECT_Q"
      [] level_str \in {"H", "h"} -> "ERROR_CORRECT_H"

\* C22: within one create_qr_codes run every item's encoder is set up with
\* the same version, error-correction level, box size and border, those
\* passed in (the level being what the level string passed in stands for);
\* the level is resolved once, before the first item
C22_OneEncoderSetupPerRun ==
    LET setups == CqEvents("QRCode")
    IN /\ \A k \in 1..Len(setups) :
             /\ setups[k].data = setups[1].data
             /\ setups[k].data.version = args.qr_version
             /\ setups[k].data.box_size = args.box_size
             /\ setups[k].data.border = args.border
             /\ args.error_correction \in {"L", "l", "M", "m", "Q", "q", "H", "h"}
                   => setups[k].data.error_correction = C22_LevelOf(args.error_correction)
       /\ Len(CqEvents("get_error_correction_level")) <= 1
       /\ \A k \in 1..Len(cqTrace) :
             cqTrace[k].op = "QRCode" =>
                \E j \in 1..(k - 1) : cqTrace[j].op = "get_error_correction_level"

\* a run of three items with settings other than the defaults has returned
C22_Witness ==
    /\ pc = "returned"
    /\ Len(CqEvents("QRCode")) = 3
    /\ args.qr_version = <<5>> /\ args.error_correction = "h"
    /\ args.box_size = 3 /\ args.border = 1

(***************************************************************************)
(* Claims about the path of a colorize_svg run                             *)
(***************************************************************************)
\* the places of czTrace where a regex substitution is begun: in the
\* ParseError handler, in the nothing-matched branch, in the outer handler
C23_RegexAttempts ==
    {k \in 1..Len(czTrace) :
        czTrace[k] \in {"parse_error_regex", "empty_regex", "fallback_read"}}

\* C23: every colorize_svg run is a path of the state machine: it starts
\* with the parse attempt (the read and the parse); serialize is reached
\* only directly after an edit that matched an element; a regex fallback is
\* begun only directly after the parse attempt failed or after an edit that
\* matched nothing; no block is entered twice and the regex fallback is
\* attempted at most once.
C23_PathOfStateMachine ==
    /\ Len(czTrace) >= 1 => czTrace[1] = "read"
    /\ \A k \in 1..Len(czTrace) :
          /\ czTrace[k] = "parse" => k = 2
          /\ czTrace[k] = "serialize" =>
                k > 1 /\ czTrace[k - 1] = "edit" /\ C4_Found
          /\ k \in C23_RegexAttempts =>
                /\ k > 1
                /\ \/ czTrace[k - 1] \in {"read", "parse"}
                   \/ czTrace[k - 1] = "edit" /\ ~C4_Found
          /\ \A j \in 1..Len(czTrace) : czTrace[j] = czTrace[k] => j = k
    /\ Cardinality(C23_RegexAttempts) <= 1

\* the same, for the runs in which no file operation failed
C23_PathWithoutIOFailure == faults = MaxFaults => C23_PathOfStateMachine

\* the regex fallback begun from the write of the serialized tree
C23_FallbackAfterWrite ==
    \E k \in 2..Len(czTrace) :
        czTrace[k] = "fallback_read" /\ czTrace[k - 1] = "write"

\* the regex substitution made a second time
C23_SecondRegexAttempt == Cardinality(C23_RegexAttempts) = 2

\* C24: the output directory is written append-only: the file an item
\* saves (and colorizes) is one that no earlier item of the run saved.
C24_AppendOnly ==
    \A j, k \in 1..Len(writes) : writes[j] = writes[k] => j = k

\* the same, for the runs that name their files by the serial number
C24_AppendOnlySequential == args # <<>> /\ ~args.csv_mode => C24_AppendOnly

\* the events that may begin item n: the progress callback when there is
\* one, else the skip or the encoder of that item
C25_BeginsItem(e, n) ==
    /\ e.item = n
    /\ IF args.progress_callback THEN e.op = "progress_callback"
       ELSE e.op \in {"skip", "QRCode"}

\* the events that may follow the last step of item n: the first step of
\* item n + 1, or the end of the run
C25_AfterItem(e, n) ==
    \/ C25_BeginsItem(e, n + 1)
    \/ e.item = 0 /\ (IF args.progress_callback THEN e.op = "progress_callback"
                      ELSE e.op = "return")

\* event e may directly follow event d in a run of create_qr_codes
C25_Follows(d, e) ==
    CASE d.op = "makedirs" -> e.op = "get_error_correction_level"
      [] d.op = "get_error_correction_level" -> C25_AfterItem(e, 0)
      [] d.op = "progress_callback" ->
            IF d.item = 0 THEN e.op = "return"
            ELSE e.item = d.item /\ e.op \in {"skip", "QRCode"}
      [] d.op = "skip" -> C25_AfterItem(e, d.item)
      [] d.op = "QRCode" ->
            e.item = d.item /\ e.op = "generate_custom_filename"
      [] d.op = "generate_custom_filename" -> e.item = d.item /\ e.op = "save"
      [] d.op = "save" ->
            IF args.format = Svg
            THEN e.item = d.item /\ e.op = "colorize_svg"
            ELSE C25_AfterItem(e, d.item)
      [] d.op = "colorize_svg" ->
            e.item = d.item /\ e.op = "colorize_svg returned"
      [] d.op = "colorize_svg returned" -> C25_AfterItem(e, d.item)
      [] OTHER -> FALSE

\* C25: records are processed strictly one after another: the directory is
\* created before the first item; for each record the steps are render,
\* file name, save, then colorize exactly when the format is svg; every
\* step of item k, the return of its colorize_svg included, comes before
\* the first step of item k + 1.
C25_StrictlySequential ==
    /\ Len(cqTrace) >= 1 => cqTrace[1].op = "makedirs"
    /\ \A k \in 1..(Len(cqTrace) - 1) : C25_Follows(cqTrace[k], cqTrace[k + 1])
    /\ \A k \in 1..Len(cqTrace) :
          cqTrace[k].op = "colorize_svg" => args.format = Svg

\* two svg items were saved and colorized and the run has returned
C25_Witness ==
    /\ pc = "returned"
    /\ args.format = Svg
    /\ Len(CqEvents("save")) = 2
    /\ Len(CqEvents("colorize_svg returned")) = 2

\* the calls of progress_callback made so far, in order
C28_Calls == CqEvents("progress_callback")

\* C28: with a progress_callback, it is called once directly before each
\* record, skipped rows included, with current 0, 1, 2, ... below total,
\* and once more with current = total when the run completes; total is the
\* number of records in every call.
C28_ProgressCalls ==
    (args # <<>> /\ args.progress_callback) =>
        /\ \A k \in 1..Len(C28_Calls) :
              /\ C28_Calls[k].data.total = Total(args)
              /\ C28_Calls[k].data.current = k - 1
              /\ C28_Calls[k].item > 0 =>
                    /\ C28_Calls[k].item = k
                    /\ C28_Calls[k].data.current < Total(args)
              /\ C28_Calls[k].item = 0 =>
                    /\ k = Len(C28_Calls)
                    /\ C28_Calls[k].data.current = Total(args)
        /\ \A j \in 1..Len(cqTrace) :
              cqTrace[j].op \in {"skip", "QRCode"} =>
                 /\ cqTrace[j - 1].op = "progress_callback"
                 /\ cqTrace[j - 1].item = cqTrace[j].item
        /\ pc = "returned" =>
              /\ Len(C28_Calls) = Total(args) + 1
              /\ C28_Calls[Len(C28_Calls)].item = 0
        /\ pc # "returned" =>
              \A k \in 1..Len(C28_Calls) : C28_Calls[k].item > 0

\* a run over two rows, one of them skipped, has returned after three calls
C28_Witness ==
    /\ pc = "returned"
    /\ args.progress_callback
    /\ Len(CqEvents("skip")) = 1
    /\ Len(C28_Calls) = 3
    /\ C28_Calls[3].data = [current |-> 2, total |-> 2]

\* record n was processed exactly once: one skip or one encoder call
C29_ProcessedOnce(n) ==
    Len(SelectSeq(cqTrace, LAMBDA e : e.item = n /\ e.op \in {"skip", "QRCode"})) = 1

C29_ReturnedAfterEachRecordOnce ==
    /\ pc = "returned"
    /\ \A n \in 1..Total(args) : C29_ProcessedOnce(n)
    /\ Len(SelectSeq(cqTrace, LAMBDA e : e.op \in {"skip", "QRCode"})) = Total(args)
    /\ cqTrace[Len(cqTrace)].op = "return"

C27_ManualHandlerCompletes ==
    (entry = "ManualModeHandler" /\ cqTrace # <<>>
        /\ cqTrace[Len(cqTrace)].op = "return" /\ pc # "returned") =>
        /\ pc = "completed"
        /\ reported # <<>> /\ reported[Len(reported)].kind = "complete"
        /\ \A k \in 1..Len(reported) : reported[k].kind # "handle_error"

\* the creation of the archive was asked for and failed
C26_ArchiveFailed ==
    \E k \in 1..Len(reported) : reported[k].kind = "create_zip_file failed"

\* every file the run wrote is still in the output folder
C26_GeneratedFilesRemain ==
    \A k \in 1..Len(writes) : writes[k] \in DOMAIN files

ResultTuple(r) == <<r.ok, IF r.ok THEN r.val ELSE r.why>>

\* `not t` for a tuple: only the empty tuple is falsy
TupleFalsy(t) == Len(t) = 0

\* RequiredRule.validate: `if not str(value).strip()`
RequiredRule(value) ==
    IF Strip(value) = <<>> THEN Invalid("End Date is required") ELSE Valid(value)

\* validate_date of _setup_validation_rules (lines 214-218):
\* `if not validate_date_format(str(value))` tests the returned tuple
ValidateDate(value) ==
    IF TupleFalsy(ResultTuple(ValidateDateFormat(value)))
    THEN Invalid("Invalid date format. Use DD.MM.YY")
    ELSE Valid(value)

\* the rules of "End Date" in the order they were added, each conditional
\* on the manual mode: RequiredRule, then CustomRule(validate_date)
EndDateRules(operation_mode) ==
    IF operation_mode = "manual" THEN <<"RequiredRule", "validate_date">> ELSE <<>>

ApplyRule(rule, value) ==
    IF rule = "RequiredRule" THEN RequiredRule(value) ELSE ValidateDate(value)

\* FormValidator.validate_field: the first rule that fails decides
RECURSIVE ValidateField(_, _)
ValidateField(rules, value) ==
    IF rules = <<>> THEN Valid(value)
    ELSE IF ~ApplyRule(Head(rules), value).ok THEN ApplyRule(Head(rules), value)
    ELSE ValidateField(Tail(rules), value)

\* two dates of the wrong form or day that the field is expected to reject
EndDateSamples ==
    {<<"3", "2", ".", "1", "2", ".", "3", "1">>,
     <<"2", "0", "2", "4", "-", "1", "2", "-", "3", "1">>}

FormCalls ==
    [op : {"validate_field"}, field : {"End Date"},
     value : DateTexts \cup SettingTexts \cup EndDateSamples,
     operation_mode : {"manual", "csv"}]

InitFormValidator ==
    /\ call \in FormCalls
    /\ ret = <<>> /\ log = <<>> /\ disk = <<>>
    /\ BatchIdle
    /\ ColorizeIdle

CallValidateField ==
    /\ call \in FormCalls
    /\ ret = <<>>
    /\ ret' = <<ValidateField(EndDateRules(call.operation_mode), call.value)>>
    /\ UNCHANGED <<call, log, disk, batchVars, czVars>>

NextFormValidator == CallValidateField

SpecFormValidator == InitFormValidator /\ [][NextFormValidator]_vars

\* C30: in manual mode validate_field("End Date", s) is invalid exactly
\* when validate_date_format(s) returns (False, ...), for every non-empty s.
C30_EndDateRejectedAsDateFormat ==
    (ret # <<>> /\ call.op = "validate_field" /\ call.operation_mode = "manual"
        /\ call.value # <<>>) =>
        (~ret[1].ok <=> ~ValidateDateFormat(call.value).ok)

\* what holds instead: the field is rejected exactly when it is blank
C30_EndDateRejectedWhenBlank ==
    (ret # <<>> /\ call.op = "validate_field" /\ call.operation_mode = "manual") =>
        (~ret[1].ok <=> Strip(call.value) = <<>>)

====
